---- MODULE Spec2Model ----
(***************************************************************************)
(* Model of ratatai.                                                       *)
(* The Launchpad API client (launchpad_api_client/src/lib.rs, client.rs):  *)
(* the project validator check_project, the paginated fetcher              *)
(* get_project_bug_tasks, the single-record fetcher get_bug and the        *)
(* decoding of the optional timestamp fields.                              *)
(* The terminal application (ratatai/src): the event loop run, the key     *)
(* handlers, the background tasks of App::get_bugs, App::get_bug and the   *)
(* AI request, the channel between them, and JoinHandleMonitor.            *)
(*                                                                         *)
(* Strings are modelled as sequences of pieces, so that format!(..)        *)
(* becomes concatenation; Option<T> is <<>> (None) or <<x>> (Some(x)).     *)
(***************************************************************************)
EXTENDS Integers, Sequences, FiniteSets, TLC

VARIABLES
    call,            \* function harness: the call being evaluated
    ret,             \* function harness: the results returned so far
    project_name,    \* get_project_bug_tasks: argument project_name
    filter,          \* get_project_bug_tasks: argument filter
    pc,              \* get_project_bug_tasks: position in the function body
    requests,        \* every URL handed to HTTPClient::get, in call order
    served,          \* the transport: URL -> response, fixed at first request
    responses,       \* every response HTTPClient::get returned, in call order
    bug_tasks_page,  \* local bug_tasks_page (Option of the decoded page)
    bugtasks,        \* local bugtasks, the accumulator
    result,          \* the value returned (Option of Ok/Err)
    loop_pc,             \* run: position of the event loop
    active_panel,        \* App::active_panel
    current_screen,      \* App::current_screen
    spinner_enabled,     \* App::spinner_enabled
    bug_table_items,     \* App::bug_table_items
    bug_table_selected,  \* App::bug_table_state.selected()
    bug_table_rows,      \* App::bug_table_rows
    bug_table_scrollbar_state,  \* App::bug_table_scrollbar_state
    current_bug,         \* App::current_bug
    gemini_response,     \* the String behind App::gemini_response
    bug_reply_text,      \* App::bug_reply_text
    lp_channel,          \* messages queued in the mpsc channel of LpMessage
    tasks,               \* the tasks given to tokio::spawn, in spawn order
    net,                 \* every network request made, with the task making it
    consumed,            \* every message try_recv handed to the loop, in order
    monitor              \* a JoinHandleMonitor and the task behind its handle

fetchVars == <<project_name, filter, pc, requests, served, responses,
               bug_tasks_page, bugtasks, result>>

appVars == <<loop_pc, active_panel, current_screen, spinner_enabled,
             bug_table_items, bug_table_selected,
             bug_table_rows, bug_table_scrollbar_state, current_bug,
             gemini_response,
             bug_reply_text, lp_channel, tasks, net, consumed>>

vars == <<call, ret, fetchVars, appVars, monitor>>

-----------------------------------------------------------------------------
(* Bounds of the model *)

\* longest project payload, in JSON tokens, given to check_project
MaxPayloadLen == 5
\* most entries on one served page
MaxPageLen == 2
\* cap on the HTTPClient::get calls of one run (the loop itself has none)
MaxRequests == 5

-----------------------------------------------------------------------------
(* Option and Result *)

None == <<>>
Some(x) == <<x>>
IsSome(o) == o # <<>>
Unwrap(o) == o[1]

Ok(v) == [ok |-> TRUE, val |-> v, err |-> "", name |-> <<>>]
\* LaunchpadError::HttpRequest(_)
HttpRequestErr == [ok |-> FALSE, val |-> <<>>, err |-> "HttpRequest", name |-> <<>>]
\* LaunchpadError::Deserialization(_)
DeserializationErr == [ok |-> FALSE, val |-> <<>>, err |-> "Deserialization", name |-> <<>>]
\* LaunchpadError::InvalidProject(name)
InvalidProjectErr(name) == [ok |-> FALSE, val |-> <<>>, err |-> "InvalidProject", name |-> name]

-----------------------------------------------------------------------------
(* Strings and URLs *)

Str(s) == <<s>>

LAUNCHPAD_API_BASE_URL == Str("https://api.launchpad.net/1.0")

Projects == {Str("nova"), Str("zorglub")}

\* format!("{LAUNCHPAD_API_BASE_URL}/{project_name}")
ProjectUrl(name) == LAUNCHPAD_API_BASE_URL \o Str("/") \o name

StatusFilter ==
    {"New", "Incomplete", "Opinion", "Invalid", "WontFix", "Confirmed",
     "Triaged", "InProgress", "Deferred", "FixCommitted", "FixReleased"}

\* the conversion giving the name of the variant instead of the token
StatusFilterToString_variant_name(value) == Str(value)

\* impl From<StatusFilter> for String
StatusFilterToString(value) ==
    CASE value = "New" -> Str("New")
      [] value = "Incomplete" -> Str("Incomplete")
      [] value = "Opinion" -> Str("Opinion")
      [] value = "Invalid" -> Str("Invalid")
      [] value = "WontFix" -> Str("Won't+Fix")
      [] value = "Confirmed" -> Str("Confirmed")
      [] value = "Triaged" -> Str("Triaged")
      [] value = "InProgress" -> Str("In+Progress")
      [] value = "Deferred" -> Str("Deferred")
      [] value = "FixCommitted" -> Str("Fix+Committed")
      [] value = "FixReleased" -> Str("Fix+Released")

\* the first search URL, built by get_project_bug_tasks from name and filter
SearchUrl(name, f) ==
    IF f = None
    THEN LAUNCHPAD_API_BASE_URL \o Str("/") \o name \o Str("?ws.op=searchTasks")
    ELSE LAUNCHPAD_API_BASE_URL \o Str("/") \o name
         \o Str("?ws.op=searchTasks&status=") \o StatusFilterToString(Unwrap(f))

\* follow-up URLs the server hands out in next_collection_link (opaque)
Cursors ==
    {Str("https://api.launchpad.net/1.0/nova?status=New&ws.op=searchTasks&ws.size=2&memo=2&ws.start=2"),
     Str("https://api.launchpad.net/1.0/nova?status=New&ws.op=searchTasks&ws.size=2&memo=4&ws.start=4")}

-----------------------------------------------------------------------------
(* JSON text as a sequence of tokens, and serde_json::from_str::<Value> *)

LBRACE == [t |-> "{", s |-> <<>>]
RBRACE == [t |-> "}", s |-> <<>>]
COLON == [t |-> ":", s |-> <<>>]
COMMA == [t |-> ",", s |-> <<>>]
NULL == [t |-> "null", s |-> <<>>]
\* text that is no JSON token, such as the "Object: <lp.systemhomes..." body
GARBAGE == [t |-> "garbage", s |-> <<>>]
StrTok(s) == [t |-> "str", s |-> s]

\* serde_json::Value: Null, String(s), Object(map)
VNull == [t |-> "null", s |-> <<>>, keys |-> {}, m |-> <<>>]
VString(s) == [t |-> "str", s |-> s, keys |-> {}, m |-> <<>>]
\* an object is its key set and the list of (key, value) pairs, last one wins
VObject(pairs) ==
    [t |-> "obj", s |-> <<>>,
     keys |-> {pairs[i][1] : i \in 1..Len(pairs)}, m |-> pairs]

\* Map lookup: the last pair inserted under the key
ObjGet(v, k) ==
    LET idx == {i \in 1..Len(v.m) : v.m[i][1] = k}
        last == CHOOSE i \in idx : \A j \in idx : j <= i
    IN v.m[last][2]

ParseOk(v, next) == [ok |-> TRUE, val |-> v, next |-> next, cat |-> ""]
ParseErr(cat) == [ok |-> FALSE, val |-> VNull, next |-> 0, cat |-> cat]

RECURSIVE ParseValue(_, _)
RECURSIVE ParseMembers(_, _, _, _)

\* Deserializer::deserialize_any: one value starting at token i
ParseValue(toks, i) ==
    IF i > Len(toks) THEN ParseErr("Eof")            \* EofWhileParsingValue
    ELSE IF toks[i].t = "null" THEN ParseOk(VNull, i + 1)
    ELSE IF toks[i].t = "str" THEN ParseOk(VString(toks[i].s), i + 1)
    ELSE IF toks[i].t = "{" THEN ParseMembers(toks, i + 1, <<>>, TRUE)
    ELSE ParseErr("Syntax")                          \* ExpectedSomeValue

\* MapAccess::next_key_seed / next_value_seed, then end_map
ParseMembers(toks, i, pairs, first) ==
    IF i > Len(toks) THEN ParseErr("Eof")            \* EofWhileParsingObject
    ELSE IF toks[i].t = "}" THEN ParseOk(VObject(pairs), i + 1)
    ELSE IF ~first /\ toks[i].t # "," THEN ParseErr("Syntax")  \* ExpectedObjectCommaOrEnd
    ELSE
        LET k == IF first THEN i ELSE i + 1 IN
        IF k > Len(toks) THEN ParseErr("Eof")        \* EofWhileParsingValue
        ELSE IF toks[k].t = "}" THEN ParseErr("Syntax")   \* TrailingComma
        ELSE IF toks[k].t # "str" THEN ParseErr("Syntax") \* KeyMustBeAString
        ELSE IF k + 1 > Len(toks) THEN ParseErr("Eof")    \* EofWhileParsingObject
        ELSE IF toks[k + 1].t # ":" THEN ParseErr("Syntax") \* ExpectedColon
        ELSE
            LET v == ParseValue(toks, k + 2) IN
            IF ~v.ok THEN v
            ELSE ParseMembers(toks, v.next,
                              Append(pairs, <<toks[k].s, v.val>>), FALSE)

\* serde_json::from_str::<Value>: one value, then Deserializer::end
FromStrValue(toks) ==
    LET v == ParseValue(toks, 1) IN
    IF ~v.ok THEN v
    ELSE IF v.next <= Len(toks) THEN ParseErr("Syntax")  \* TrailingCharacters
    ELSE v

\* impl Index<&str> for Value: Null unless an object holding the key
ValueIndex(v, k) ==
    IF v.t = "obj" /\ k \in v.keys THEN ObjGet(v, k) ELSE VNull

\* impl PartialEq<&str> for Value: equal only if a string with that content
ValueEqStr(v, s) == v.t = "str" /\ v.s = s

-----------------------------------------------------------------------------
(* check_project *)

\* check_project taking every parse failure for an unknown project
check_project_all_invalid(name, url, response) ==
    LET project == FromStrValue(response) IN
    IF ~project.ok THEN InvalidProjectErr(name)
    ELSE IF ~ValueEqStr(ValueIndex(project.val, Str("self_link")), url)
         THEN InvalidProjectErr(name)
    ELSE Ok(project.val)

\* check_project with every parse failure propagated by `?`
check_project_propagate(name, url, response) ==
    LET project == FromStrValue(response) IN
    IF ~project.ok THEN DeserializationErr
    ELSE IF ~ValueEqStr(ValueIndex(project.val, Str("self_link")), url)
         THEN InvalidProjectErr(name)
    ELSE Ok(project.val)

\* check_project comparing self_link only when the member is there
check_project_if_present(name, url, response) ==
    LET project == FromStrValue(response) IN
    IF ~project.ok THEN
        IF project.cat = "Syntax" THEN InvalidProjectErr(name)
        ELSE DeserializationErr
    ELSE IF /\ ValueIndex(project.val, Str("self_link")) # VNull
            /\ ~ValueEqStr(ValueIndex(project.val, Str("self_link")), url)
         THEN InvalidProjectErr(name)
    ELSE Ok(project.val)

\* fn check_project(project_name, url, response)
check_project(name, url, response) ==
    LET project == FromStrValue(response) IN
    IF ~project.ok THEN
        IF project.cat = "Syntax" THEN InvalidProjectErr(name)
        ELSE DeserializationErr
    ELSE IF ~ValueEqStr(ValueIndex(project.val, Str("self_link")), url)
         THEN InvalidProjectErr(name)
    ELSE Ok(project.val)

-----------------------------------------------------------------------------
(* Optional timestamps on the wire and their decoding *)

\* the JSON forms a timestamp member can take
TsAbsent == [f |-> "absent", t |-> 0, off |-> 0]      \* no such key
TsNull == [f |-> "null", t |-> 0, off |-> 0]          \* "key": null
TsEmpty == [f |-> "empty", t |-> 0, off |-> 0]        \* "key": ""
\* "key": "<ISO-8601 local time t with UTC offset off>"
TsDate(t, off) == [f |-> "date", t |-> t, off |-> off]
TsBadDate == [f |-> "baddate", t |-> 0, off |-> 0]    \* "key": "not a date"
TsNumber == [f |-> "number", t |-> 0, off |-> 0]      \* "key": 42

WireForms == {TsAbsent, TsNull, TsEmpty, TsDate(10, 0), TsDate(11, 1), TsBadDate, TsNumber}

\* str::parse::<DateTime<Utc>>: the instant in UTC, or an error
ParseDateTimeUtc(w) ==
    IF w.f = "date" THEN Ok(w.t - w.off) ELSE DeserializationErr

\* deserialize_optional_datetime with the parse error of the string propagated
deserialize_optional_datetime_strict(w) ==
    IF w.f = "number" THEN DeserializationErr
    ELSE IF w.f = "null" THEN Ok(None)
    ELSE LET d == ParseDateTimeUtc(w) IN
         IF d.ok THEN Ok(Some(d.val)) ELSE DeserializationErr

\* fn deserialize_optional_datetime, applied to a member that is present
deserialize_optional_datetime(w) ==
    IF w.f = "number" THEN DeserializationErr      \* Option::<String>::deserialize fails
    ELSE IF w.f = "null" THEN Ok(None)
    ELSE IF w.f = "empty" THEN Ok(None)            \* s.is_empty()
    ELSE LET d == ParseDateTimeUtc(w) IN           \* s.parse().ok()
         IF d.ok THEN Ok(Some(d.val)) ELSE Ok(None)

\* #[serde(default, deserialize_with = "deserialize_optional_datetime")]
DecodeTsField(w) ==
    IF w.f = "absent" THEN Ok(None) ELSE deserialize_optional_datetime(w)

\* the timestamp members of BugTaskEntry and of LaunchpadBug
BugTaskEntryTsFields ==
    {"date_assigned", "date_created", "date_confirmed", "date_incomplete",
     "date_in_progress", "date_closed", "date_left_new", "date_triaged",
     "date_fix_committed", "date_fix_released", "date_left_closed",
     "date_deferred"}

LaunchpadBugTsFields ==
    {"date_created", "date_last_updated", "date_made_private",
     "date_last_message"}

\* Decoding of a record: wire.req is the Option of the required members
\* (bug_link stands for them), wire.ts the form of each timestamp member.
DecodeRecord(wire) ==
    IF wire.req = None THEN DeserializationErr     \* missing field
    ELSE IF \E f \in DOMAIN wire.ts : ~DecodeTsField(wire.ts[f]).ok
         THEN DeserializationErr
    ELSE Ok([bug_link |-> Unwrap(wire.req),
             ts |-> [f \in DOMAIN wire.ts |-> DecodeTsField(wire.ts[f]).val]])

-----------------------------------------------------------------------------
(* Pages on the wire and serde_json::from_str::<LaunchpadBugTasksResponse> *)

\* a BugTaskEntry object whose only timestamp member present is date_created
WireEntry(id, created) ==
    [req |-> Some(id),
     ts |-> [f \in BugTaskEntryTsFields |->
                IF f = "date_created" THEN created ELSE TsAbsent]]

WireEntries == {WireEntry(1, TsDate(10, 0)), WireEntry(2, TsEmpty)}

\* the forms of the member next_collection_link: absent, null or a string
LinkAbsent == [f |-> "absent", s |-> <<>>]
LinkNull == [f |-> "null", s |-> <<>>]
LinkStr(u) == [f |-> "str", s |-> u]

\* a body that is a JSON object with the members of a page
WirePage(entries, next) ==
    [shape |-> "page", start |-> 0, total_size |-> Len(entries),
     next_collection_link |-> next, entries |-> entries]
\* a body that does not decode as a page
NotAPage ==
    [shape |-> "other", start |-> 0, total_size |-> 0,
     next_collection_link |-> LinkAbsent, entries |-> <<>>]

RECURSIVE DecodeEntries(_)
\* Vec<BugTaskEntry>: every element decodes, or the whole decoding fails
DecodeEntries(ws) ==
    IF ws = <<>> THEN Ok(<<>>)
    ELSE LET h == DecodeRecord(Head(ws))
             t == DecodeEntries(Tail(ws))
         IN IF h.ok /\ t.ok THEN Ok(<<h.val>> \o t.val) ELSE DeserializationErr

\* Option<String>: an absent member and null are None
DecodeLink(l) == IF l.f = "str" THEN Some(l.s) ELSE None

FromStrPage(body) ==
    IF body.shape # "page" THEN DeserializationErr
    ELSE LET es == DecodeEntries(body.entries) IN
         IF ~es.ok THEN DeserializationErr
         ELSE Ok([start |-> body.start, total_size |-> body.total_size,
                  next_collection_link |-> DecodeLink(body.next_collection_link),
                  entries |-> es.val])

-----------------------------------------------------------------------------
(* The transport: HTTPClient::get *)

HttpOk(body) == [ok |-> TRUE, body |-> body]
\* Err(LaunchpadError::HttpRequest(_)) for a project URL and for a page URL
HttpFailProject == [ok |-> FALSE, body |-> <<>>]
HttpFailPage == [ok |-> FALSE, body |-> NotAPage]

\* bodies the server may answer with at the URL of project p
ProjectPayloads(p) ==
    {<<GARBAGE>>,                                    \* plain text, not JSON
     <<>>,                                           \* empty body
     <<LBRACE, StrTok(Str("self_link")), COLON>>,    \* truncated document
     <<LBRACE, RBRACE>>}                             \* "{}"
    \cup {<<LBRACE, StrTok(Str("self_link")), COLON, StrTok(ProjectUrl(q)), RBRACE>> :
             q \in Projects}

\* URLs a served page may name as its next_collection_link
LinkUrls == Cursors \cup {SearchUrl(project_name, filter)}

PageBodies ==
    {NotAPage}
    \cup {WirePage(es, n) :
            es \in UNION {[1..k -> WireEntries] : k \in 0..MaxPageLen},
            n \in {LinkAbsent, LinkNull} \cup {LinkStr(u) : u \in LinkUrls}}

\* what a call get(url) may return: the server answers a URL it has already
\* answered in this run the same way again
Transport(url) ==
    IF url \in DOMAIN served THEN {served[url]}
    ELSE IF url = ProjectUrl(project_name)
         THEN {HttpFailProject} \cup {HttpOk(b) : b \in ProjectPayloads(project_name)}
         ELSE {HttpFailPage} \cup {HttpOk(b) : b \in PageBodies}

\* client.get(url).await returning resp
HTTPClientGet(url, resp) ==
    /\ Len(requests) < MaxRequests
    /\ requests' = Append(requests, url)
    /\ responses' = Append(responses, resp)
    /\ served' = IF url \in DOMAIN served THEN served ELSE (url :> resp) @@ served

-----------------------------------------------------------------------------
(* get_project_bug_tasks *)

\* the project request with the outcome of check_project ignored
ProjectStep_unchecked(resp) ==
    IF ~resp.ok THEN HttpRequestErr ELSE Ok(VNull)

\* client.get(&url).await? followed by check_project(project_name, &url, &response)?
ProjectStep(resp) ==
    IF ~resp.ok THEN HttpRequestErr
    ELSE check_project(project_name, ProjectUrl(project_name), resp.body)

\* get_bug_tasks_page taking a failed request for an empty last page
get_bug_tasks_page_lenient(resp) ==
    IF ~resp.ok
    THEN Ok([start |-> 0, total_size |-> 0, next_collection_link |-> None,
             entries |-> <<>>])
    ELSE FromStrPage(resp.body)

\* get_bug_tasks_page taking a body that does not decode for an empty last
\* page
get_bug_tasks_page_skip_bad(resp) ==
    IF ~resp.ok THEN HttpRequestErr
    ELSE IF ~FromStrPage(resp.body).ok
         THEN Ok([start |-> 0, total_size |-> 0, next_collection_link |-> None,
                  entries |-> <<>>])
    ELSE FromStrPage(resp.body)

\* get_bug_tasks_page, given what the transport returned
get_bug_tasks_page(resp) ==
    IF ~resp.ok THEN HttpRequestErr ELSE FromStrPage(resp.body)

\* copy_bug_tasks_page skipping the entries the accumulator already holds
copy_bug_tasks_page_dedup(bug_tasks_response, acc) ==
    acc \o SelectSeq(bug_tasks_response.entries,
                     LAMBDA e : \A i \in 1..Len(acc) : acc[i] # e)

\* copy_bug_tasks_page: push a clone of every entry, in order
copy_bug_tasks_page(bug_tasks_response, acc) ==
    acc \o bug_tasks_response.entries

\* the loop stopping at the first page without entries
WhileCondition_until_empty(page) ==
    IsSome(page.next_collection_link) /\ page.entries # <<>>

\* the loop with a maximum number of requests
WhileCondition_capped(page) ==
    IsSome(page.next_collection_link) /\ Len(requests) < 3

\* while bug_tasks_page.next_collection_link.is_some()
WhileCondition(page) == IsSome(page.next_collection_link)

\* the follow-up URL rebuilt by the client instead of taken from the page
NextPageUrl_rebuilt(page) == SearchUrl(project_name, filter)

\* &bug_tasks_page.next_collection_link.unwrap()
NextPageUrl(page) == Unwrap(page.next_collection_link)

\* return r: the locals are dropped
Return(r) ==
    /\ pc' = "done"
    /\ result' = Some(r)
    /\ bug_tasks_page' = None
    /\ bugtasks' = <<>>

\* get_project_bug_tasks without the project request
GetProject_skipped ==
    /\ pc = "start"
    /\ pc' = "first_page"
    /\ UNCHANGED <<call, ret, project_name, filter, requests, served,
                   responses, bug_tasks_page, bugtasks, result>>
    /\ UNCHANGED <<appVars, monitor>>

\* lines 201-205: the project request and its validation
GetProject ==
    /\ pc = "start"
    /\ LET url == ProjectUrl(project_name) IN
       \E resp \in Transport(url) :
          /\ HTTPClientGet(url, resp)
          /\ LET r == ProjectStep(resp) IN
             IF ~r.ok THEN Return(r)
             ELSE /\ pc' = "first_page"
                  /\ UNCHANGED <<bug_tasks_page, bugtasks, result>>
    /\ UNCHANGED <<call, ret, project_name, filter, appVars, monitor>>

\* one page fetched from url and copied behind acc, then the loop test
PageStep(url, acc) ==
    \E resp \in Transport(url) :
       /\ HTTPClientGet(url, resp)
       /\ LET r == get_bug_tasks_page(resp) IN
          IF ~r.ok THEN Return(r)
          ELSE LET all == copy_bug_tasks_page(r.val, acc) IN
               IF WhileCondition(r.val)
               THEN /\ pc' = "next_page"
                    /\ bug_tasks_page' = Some(r.val)
                    /\ bugtasks' = all
                    /\ result' = result
               ELSE Return(Ok(all))

\* lines 208-220: the first search request
GetFirstPage ==
    /\ pc = "first_page"
    /\ PageStep(SearchUrl(project_name, filter), <<>>)
    /\ UNCHANGED <<call, ret, project_name, filter, appVars, monitor>>

\* lines 222-228: one turn of the loop, and the return after the last one
GetNextPage ==
    /\ pc = "next_page"
    /\ PageStep(NextPageUrl(Unwrap(bug_tasks_page)), bugtasks)
    /\ UNCHANGED <<call, ret, project_name, filter, appVars, monitor>>

FilterInputs == {None, Some("WontFix")}

\* ScrollbarState::new(content_length): the position is 0
ScrollbarState_new(content_length) ==
    [content_length |-> content_length, position |-> 0]

\* the application is not running
AppIdle ==
    /\ loop_pc = "idle"
    /\ active_panel = "Left"
    /\ current_screen = "BugList"
    /\ spinner_enabled = FALSE
    /\ bug_table_items = <<>>
    /\ bug_table_selected = None
    /\ bug_table_rows = <<>>
    /\ bug_table_scrollbar_state = ScrollbarState_new(0)
    /\ current_bug = None
    /\ gemini_response = <<>>
    /\ bug_reply_text = <<>>
    /\ lp_channel = <<>>
    /\ tasks = <<>>
    /\ net = {}
    /\ consumed = <<>>

\* no JoinHandleMonitor exists
MonitorIdle == monitor = [task |-> "none"]

Init ==
    /\ call = [fn |-> "none"]
    /\ ret = None
    /\ project_name \in Projects
    /\ filter \in FilterInputs
    /\ pc = "start"
    /\ requests = <<>>
    /\ served = <<>>
    /\ responses = <<>>
    /\ bug_tasks_page = None
    /\ bugtasks = <<>>
    /\ result = None
    /\ AppIdle
    /\ MonitorIdle

Next == GetProject \/ GetFirstPage \/ GetNextPage

Spec == Init /\ [][Next]_vars

-----------------------------------------------------------------------------
(* Pure-function harness: check_project on every short payload *)

JsonTokens ==
    {LBRACE, RBRACE, COLON, COMMA, NULL, GARBAGE, StrTok(Str("self_link"))}
    \cup {StrTok(ProjectUrl(p)) : p \in Projects}

SeqsUpTo(S, n) == UNION {[1..k -> S] : k \in 0..n}

FetchIdle ==
    /\ project_name = <<>>
    /\ filter = None
    /\ pc = "idle"
    /\ requests = <<>>
    /\ served = <<>>
    /\ responses = <<>>
    /\ bug_tasks_page = None
    /\ bugtasks = <<>>
    /\ result = None

InitCheckProject ==
    /\ \E p \in Projects, r \in SeqsUpTo(JsonTokens, MaxPayloadLen) :
          call = [fn |-> "check_project", name |-> p, url |-> ProjectUrl(p),
                  response |-> r]
    /\ ret = None
    /\ FetchIdle
    /\ AppIdle
    /\ MonitorIdle

CallCheckProject ==
    /\ call.fn = "check_project"
    /\ ret = None
    /\ ret' = Some(check_project(call.name, call.url, call.response))
    /\ UNCHANGED <<call, fetchVars, appVars, monitor>>

SpecCheckProject == InitCheckProject /\ [][CallCheckProject]_vars

-----------------------------------------------------------------------------
(* Pure-function harness: decoding of a record's timestamp members *)

\* a record of the given kind: the members in S take form a, the others b
InitDecode ==
    /\ \E kind \in {"BugTaskEntry", "LaunchpadBug"}, req \in {None, Some(1)},
          a \in WireForms, b \in WireForms :
          LET fields == IF kind = "BugTaskEntry" THEN BugTaskEntryTsFields
                        ELSE LaunchpadBugTsFields
          IN \E S \in SUBSET fields :
                call = [fn |-> "decode", kind |-> kind,
                        wire |-> [req |-> req,
                                  ts |-> [f \in fields |-> IF f \in S THEN a ELSE b]]]
    /\ ret = None
    /\ FetchIdle
    /\ AppIdle
    /\ MonitorIdle

CallDecode ==
    /\ call.fn = "decode"
    /\ ret = None
    /\ ret' = Some(DecodeRecord(call.wire))
    /\ UNCHANGED <<call, fetchVars, appVars, monitor>>

SpecDecode == InitDecode /\ [][CallDecode]_vars

-----------------------------------------------------------------------------
(* Properties of get_project_bug_tasks (specification Spec) *)

\* the decoded entries of the pages requested from the i-th request on
RECURSIVE ConcatPages(_)
ConcatPages(i) ==
    IF i > Len(requests) THEN <<>>
    ELSE DecodeEntries(served[requests[i]].body.entries).val \o ConcatPages(i + 1)

RECURSIVE SumPageLens(_)
SumPageLens(i) ==
    IF i > Len(requests) THEN 0
    ELSE Len(served[requests[i]].body.entries) + SumPageLens(i + 1)

\* the i-th request was answered with a body that is a page
GoodPage(i) ==
    served[requests[i]].ok /\ served[requests[i]].body.shape = "page"

\* the page answered to the i-th request names no next page
TerminalPage(i) ==
    served[requests[i]].body.next_collection_link.f \in {"absent", "null"}

\* the one body check_project accepts for project p among ProjectPayloads
ValidProjectBody(p) ==
    <<LBRACE, StrTok(Str("self_link")), COLON, StrTok(ProjectUrl(p)), RBRACE>>

HasRepeat == \E i, j \in 1..Len(requests) : i < j /\ requests[i] = requests[j]

BugLinks(es) == [i \in 1..Len(es) |-> es[i].bug_link]

\* C1: when the run has returned and every page requested was a valid page,
\* the result is Ok and holds the entries of the pages in request order, each
\* page's entries in their order, nothing dropped, sorted or deduplicated;
\* its length is the sum of the pages' lengths.
C1_Concatenation ==
    (/\ pc = "done"
     /\ Len(requests) >= 2
     /\ \A i \in 2..Len(requests) : GoodPage(i))
    => /\ Unwrap(result).ok
       /\ Unwrap(result).val = ConcatPages(2)
       /\ Len(Unwrap(result).val) = SumPageLens(2)

\* two pages, the entries out of order and one entry on both pages
C1_Witness ==
    /\ pc = "done"
    /\ Len(requests) = 3
    /\ Unwrap(result).ok
    /\ BugLinks(Unwrap(result).val) = <<2, 1, 1, 2>>

\* C2 as stated: a first page without next_collection_link means that one
\* HTTPClient::get call was made in the whole run.
C2_ExactlyOneCall ==
    LET u == SearchUrl(project_name, filter) IN
    (/\ pc = "done"
     /\ u \in DOMAIN served
     /\ served[u].ok /\ served[u].body.shape = "page"
     /\ served[u].body.next_collection_link.f \in {"absent", "null"})
    => Len(requests) = 1

\* C2 amended: a first page without next_collection_link ends the run with
\* exactly two calls, the project request and the one search request.
C2_OnePageRequest ==
    LET u == SearchUrl(project_name, filter) IN
    (/\ u \in DOMAIN served
     /\ served[u].ok /\ served[u].body.shape = "page"
     /\ served[u].body.next_collection_link.f \in {"absent", "null"})
    => /\ pc = "done"
       /\ requests = <<ProjectUrl(project_name), u>>
       /\ Unwrap(result).ok

C2_Witness ==
    LET u == SearchUrl(project_name, filter) IN
    /\ pc = "done"
    /\ u \in DOMAIN served
    /\ served[u] = HttpOk(WirePage(<<WireEntry(1, TsDate(10, 0))>>, LinkNull))
    /\ Len(requests) = 2

\* C5: the first request is the project URL; a second request is made only
\* after the project request succeeded and its body passed check_project;
\* otherwise the run ends after one request with the error of that step.
C5_ProjectFirst ==
    /\ requests # <<>> => requests[1] = ProjectUrl(project_name)
    /\ \A i \in 2..Len(requests) : requests[i] # ProjectUrl(project_name)
    /\ Len(requests) >= 2 =>
          /\ served[requests[1]].ok
          /\ served[requests[1]].body = ValidProjectBody(project_name)
    /\ (/\ requests # <<>>
        /\ \/ ~served[requests[1]].ok
           \/ served[requests[1]].body # ValidProjectBody(project_name))
       => /\ Len(requests) = 1
          /\ pc = "done"
          /\ ~Unwrap(result).ok
          /\ Unwrap(result).err =
                IF ~served[requests[1]].ok THEN "HttpRequest"
                ELSE IF served[requests[1]].body \in {<<>>, <<LBRACE, StrTok(Str("self_link")), COLON>>}
                     THEN "Deserialization"
                ELSE "InvalidProject"

\* the project body is "{}": the run has ended without a search request
C5_Witness ==
    /\ pc = "done"
    /\ requests = <<ProjectUrl(project_name)>>
    /\ served[requests[1]] = HttpOk(<<LBRACE, RBRACE>>)
    /\ Unwrap(result).err = "InvalidProject"

\* C6: every page requested before the last one named a next page, so
\* nothing is ever requested after a page that names none; a page naming
\* none ends the run with Ok; a run that returned Ok requested the project
\* and then each page exactly once; and a run over a chain without a cycle
\* is never cut short: it is in the body with a request still allowed.
C6_TerminalPage ==
    /\ \A i \in 2..(Len(requests) - 1) : GoodPage(i) /\ ~TerminalPage(i)
    /\ (Len(requests) >= 2 /\ GoodPage(Len(requests)) /\ TerminalPage(Len(requests)))
          => (pc = "done" /\ Unwrap(result).ok)
    /\ (pc = "done" /\ Unwrap(result).ok) =>
          /\ Len(requests) >= 2
          /\ TerminalPage(Len(requests))
          /\ ~HasRepeat
          /\ Cardinality({requests[i] : i \in 1..Len(requests)}) = Len(requests)
    /\ (pc # "done" /\ ~HasRepeat) =>
          /\ pc \in {"start", "first_page", "next_page"}
          /\ Len(requests) < MaxRequests
          /\ pc = "next_page" =>
                Unwrap(bug_tasks_page).next_collection_link
                   = Some(served[requests[Len(requests)]].body.next_collection_link.s)

\* a chain of three pages has been followed to its end
C6_Witness ==
    /\ pc = "done"
    /\ Unwrap(result).ok
    /\ Len(requests) = 4

\* C7: once a page has led back to a URL already requested, the run never
\* returns: it is in the loop, the page it holds names a next page that the
\* transport has answered before, and the accumulator holds the entries of
\* every page requested, those of the repeated pages once per request.
C7_CyclicChainNeverReturns ==
    HasRepeat =>
       /\ pc = "next_page"
       /\ result = None
       /\ WhileCondition(Unwrap(bug_tasks_page))
       /\ NextPageUrl(Unwrap(bug_tasks_page)) \in DOMAIN served
       /\ NextPageUrl(Unwrap(bug_tasks_page)) \in {requests[i] : i \in 2..Len(requests)}
       /\ bugtasks = ConcatPages(2)
       /\ Len(bugtasks) = SumPageLens(2)

\* the first page names itself: it has been fetched up to the cap
C7_Witness ==
    /\ HasRepeat
    /\ Len(requests) = MaxRequests
    /\ Cardinality({requests[i] : i \in 1..Len(requests)}) = 2
    /\ Len(bugtasks) = MaxPageLen * (MaxRequests - 1)

\* C8: the first two URLs are the ones the client builds; every later URL is
\* the next_collection_link of the page answered to the request before it.
C8_CursorUnmodified ==
    /\ Len(requests) >= 1 => requests[1] = ProjectUrl(project_name)
    /\ Len(requests) >= 2 => requests[2] = SearchUrl(project_name, filter)
    /\ \A i \in 3..Len(requests) :
          served[requests[i - 1]].body.next_collection_link = LinkStr(requests[i])

\* two follow-up requests, each to the cursor the page before named
C8_Witness ==
    /\ Len(requests) = 4
    /\ requests[3] \in Cursors
    /\ requests[4] \in Cursors \ {requests[3]}

\* C9: a failed transport call is the last call of the run; the run has
\* returned the HttpRequest error, with none of the entries copied so far.
C9_TransportFailureAborts ==
    \A i \in 1..Len(requests) :
       ~served[requests[i]].ok =>
          /\ i = Len(requests)
          /\ pc = "done"
          /\ Unwrap(result).err = "HttpRequest"
          /\ Unwrap(result).val = <<>>
          /\ bugtasks = <<>>

\* the second page's request fails after the first page brought two entries
C9_Witness ==
    /\ Len(requests) = 3
    /\ Len(served[requests[2]].body.entries) = 2
    /\ ~served[requests[3]].ok
    /\ pc = "done"

-----------------------------------------------------------------------------
(* Properties of check_project (specification SpecCheckProject) *)

\* C3 as stated: every payload that is not well-formed JSON yields
\* InvalidProject with the requested name.
C3_MalformedIsInvalidProject ==
    (ret # None /\ ~FromStrValue(call.response).ok)
    => /\ Unwrap(ret).err = "InvalidProject"
       /\ Unwrap(ret).name = call.name

\* C3 amended: a payload whose parse fails with a syntax error (any payload
\* holding text that is no JSON token is one) yields InvalidProject with the
\* requested name; a payload whose parse fails at the end of the input (an
\* empty body, a truncated document) yields Deserialization.
C3_SyntaxErrorIsInvalidProject ==
    ret # None =>
       LET parsed == FromStrValue(call.response) IN
       /\ (\E i \in 1..Len(call.response) : call.response[i] = GARBAGE)
             => (~parsed.ok /\ parsed.cat = "Syntax")
       /\ (~parsed.ok /\ parsed.cat = "Syntax")
             => (Unwrap(ret).err = "InvalidProject" /\ Unwrap(ret).name = call.name)
       /\ (~parsed.ok /\ parsed.cat = "Eof")
             => Unwrap(ret).err = "Deserialization"
       /\ call.response = <<>> => Unwrap(ret).err = "Deserialization"

\* the plain-text body of an unknown project
C3_Witness ==
    /\ ret # None
    /\ call.response = <<GARBAGE>>
    /\ call.name = Str("zorglub")
    /\ Unwrap(ret) = InvalidProjectErr(Str("zorglub"))

\* C4: a payload that parses yields Ok exactly when it is an object whose
\* member self_link is a string equal to the requested URL, and
\* InvalidProject with the requested name otherwise.
C4_SelfLinkMustMatch ==
    (ret # None /\ FromStrValue(call.response).ok) =>
       LET v == FromStrValue(call.response).val
           matches ==
              /\ v.t = "obj"
              /\ \E i \in 1..Len(v.m) :
                    /\ v.m[i][1] = Str("self_link")
                    /\ \A j \in (i + 1)..Len(v.m) : v.m[j][1] # Str("self_link")
                    /\ v.m[i][2].t = "str"
                    /\ v.m[i][2].s = call.url
       IN /\ Unwrap(ret).ok <=> matches
          /\ ~Unwrap(ret).ok =>
                (Unwrap(ret).err = "InvalidProject" /\ Unwrap(ret).name = call.name)

\* "{}" has been refused, being an object without self_link
C4_Witness ==
    /\ ret # None
    /\ call.response = <<LBRACE, RBRACE>>
    /\ Unwrap(ret).err = "InvalidProject"

-----------------------------------------------------------------------------
(* Properties of the timestamp decoding (specification SpecDecode) *)

\* C10: a timestamp member that is absent, null or the empty string never
\* makes the decoding of its record fail and decodes to None, whatever the
\* forms of the other timestamp members: the decoding fails only for a
\* missing required member or a timestamp member that is no string.
C10_EmptyTimestampsDecodeToNone ==
    ret # None =>
       LET ts == call.wire.ts
           r == Unwrap(ret)
       IN /\ r.ok <=> (call.wire.req # None /\ \A f \in DOMAIN ts : ts[f].f # "number")
          /\ r.ok => \A f \in DOMAIN ts :
                        ts[f].f \in {"absent", "null", "empty"} => r.val.ts[f] = None

\* a summary with some members null and the others empty has been decoded
C10_Witness ==
    /\ ret # None
    /\ call.kind = "BugTaskEntry"
    /\ Unwrap(ret).ok
    /\ call.wire.ts["date_created"] = TsEmpty
    /\ call.wire.ts["date_closed"] = TsNull
    /\ Unwrap(ret).val.ts["date_created"] = None

-----------------------------------------------------------------------------
(* get_bug: the single-record fetcher *)

LAUNCHPAD_API_BUG_BASE_URL == Str("https://api.launchpad.net/1.0/bugs")

\* format!("{LAUNCHPAD_API_BUG_BASE_URL}/{bug_id}"): bug_id in decimal
BugUrl(bug_id) == LAUNCHPAD_API_BUG_BASE_URL \o Str("/") \o Str(ToString(bug_id))

\* the JSON forms of the member id
IdAbsent == [f |-> "absent", n |-> 0]        \* no such key
IdString == [f |-> "string", n |-> 0]        \* "id": "666"
IdNumber(n) == [f |-> "number", n |-> n]     \* "id": n
IdTooBig == [f |-> "toobig", n |-> 0]        \* "id": 4294967296

\* a body that is a JSON object: self_link stands for the required string
\* members, id for the required u32 members
WireBug(self_link, id, created) ==
    [shape |-> "object", self_link |-> self_link, id |-> id,
     ts |-> [f \in LaunchpadBugTsFields |->
                IF f = "date_created" THEN created ELSE TsAbsent]]
\* a body that is not JSON (plain text), and a document cut short
BugNotJson == [shape |-> "syntax", self_link |-> None, id |-> IdAbsent, ts |-> <<>>]
BugTruncated == [shape |-> "eof", self_link |-> None, id |-> IdAbsent, ts |-> <<>>]

\* u32::deserialize: a JSON number from 0 to 4294967295, anything else
\* (a negative number, a number beyond u32, a string) is an error
DecodeU32(id) ==
    IF id.f = "number" /\ id.n >= 0 THEN Ok(id.n) ELSE DeserializationErr

\* serde_json::from_str::<LaunchpadBug>, every failure a serde_json::Error
FromStrBug(body) ==
    IF body.shape # "object" THEN DeserializationErr          \* not a document
    ELSE IF body.self_link = None THEN DeserializationErr      \* missing field
    ELSE IF ~DecodeU32(body.id).ok THEN DeserializationErr     \* missing or wrong type
    ELSE IF \E f \in DOMAIN body.ts : ~DecodeTsField(body.ts[f]).ok
         THEN DeserializationErr
    ELSE Ok([self_link |-> Unwrap(body.self_link),
             id |-> DecodeU32(body.id).val,
             ts |-> [f \in DOMAIN body.ts |-> DecodeTsField(body.ts[f]).val]])

\* get_bug with the project-style validation of check_project added
get_bug_validated(bug_id, resp) ==
    IF ~resp.ok THEN HttpRequestErr
    ELSE IF resp.body.shape = "syntax" THEN InvalidProjectErr(Str(ToString(bug_id)))
    ELSE IF resp.body.shape = "object" /\ resp.body.self_link # Some(BugUrl(bug_id))
         THEN InvalidProjectErr(Str(ToString(bug_id)))
    ELSE FromStrBug(resp.body)

\* get_bug keeping state between calls: only the first call decodes
get_bug_stateful(bug_id, resp) ==
    IF ~resp.ok THEN HttpRequestErr
    ELSE IF requests # <<>> THEN DeserializationErr
    ELSE FromStrBug(resp.body)

\* the value get_bug(client, bug_id) returns when client.get returns resp:
\* both `?` convert with From, HttpRequest stays and serde_json::Error
\* becomes Deserialization
get_bug(bug_id, resp) ==
    IF ~resp.ok THEN HttpRequestErr ELSE FromStrBug(resp.body)

\* ids asked for, and bodies the server may answer with
BugIds == {666, 5000}

BugBodies ==
    {BugNotJson, BugTruncated}
    \cup {WireBug(l, i, c) :
            l \in {None, Some(BugUrl(666))},
            i \in {IdAbsent, IdString, IdNumber(666), IdNumber(5000),
                   IdNumber(-1), IdTooBig},
            c \in {TsDate(10, 0), TsEmpty, TsNumber}}

HttpFailBug == [ok |-> FALSE, body |-> BugNotJson]

\* the server may change between two requests
BugTransport == {HttpFailBug} \cup {HttpOk(b) : b \in BugBodies}

\* most calls of get_bug in one run
MaxBugCalls == 2

InitGetBug ==
    /\ \E id \in BugIds : call = [fn |-> "get_bug", bug_id |-> id]
    /\ ret = <<>>
    /\ FetchIdle
    /\ AppIdle
    /\ MonitorIdle

\* one call get_bug(client, call.bug_id), from its request to its return
GetBug ==
    /\ call.fn = "get_bug"
    /\ Len(ret) < MaxBugCalls
    /\ \E resp \in BugTransport :
          /\ requests' = Append(requests, BugUrl(call.bug_id))
          /\ responses' = Append(responses, resp)
          /\ ret' = Append(ret, get_bug(call.bug_id, resp))
    /\ UNCHANGED <<call, project_name, filter, pc, served, bug_tasks_page,
                   bugtasks, result, appVars, monitor>>

SpecGetBug == InitGetBug /\ [][GetBug]_vars

\* C11: the k-th call of get_bug has made exactly one request, to
\* {bugs_base}/{id}; a transport failure is returned as HttpRequest, a body
\* that decodes is returned as the record with the id of the payload, whatever
\* its self_link, and a body that fails to decode for any reason (not JSON,
\* missing member, wrong type) is returned as Deserialization, never as
\* InvalidProject.
C11_GetBugOneRequestNoValidation ==
    call.fn = "get_bug" =>
        /\ Len(requests) = Len(ret)
        /\ Len(responses) = Len(ret)
        /\ \A k \in 1..Len(ret) :
              LET resp == responses[k]
                  r == ret[k]
              IN /\ requests[k] = BugUrl(call.bug_id)
                 /\ r.err # "InvalidProject"
                 /\ ~resp.ok => r.err = "HttpRequest"
                 /\ resp.ok =>
                      IF /\ resp.body.shape = "object"
                         /\ resp.body.self_link # None
                         /\ resp.body.id.f = "number"
                         /\ resp.body.id.n >= 0
                         /\ resp.body.ts["date_created"].f # "number"
                      THEN r.ok /\ r.val.id = resp.body.id.n
                      ELSE r.err = "Deserialization"

\* C11: a call has returned a record whose id is not the id asked for, and
\* calls have failed on a body that is not JSON and on a missing member
C11_Witness ==
    /\ call.fn = "get_bug"
    /\ Len(ret) = 2
    /\ ret[1].ok /\ ret[1].val.id # call.bug_id
    /\ responses[2].ok
    /\ responses[2].body.shape = "object"
    /\ responses[2].body.self_link = None
    /\ ret[2].err = "Deserialization"

\* the results of two calls are the same value
SameResult(r1, r2) ==
    /\ r1.ok = r2.ok
    /\ r1.err = r2.err
    /\ r1.ok => r1.val = r2.val

-----------------------------------------------------------------------------
(* Function harness: the first search URL for every project and filter *)

ProjectNames ==
    Projects \cup {Str("notaproject"), Str("neutron"), Str("cinder")}

InitSearchUrl ==
    /\ \E p \in ProjectNames, f \in {None} \cup {Some(v) : v \in StatusFilter} :
          call = [fn |-> "search_url", name |-> p, filter |-> f]
    /\ ret = None
    /\ FetchIdle
    /\ AppIdle
    /\ MonitorIdle

\* lines 208-214 of get_project_bug_tasks: the url of the first search
CallSearchUrl ==
    /\ call.fn = "search_url"
    /\ ret = None
    /\ ret' = Some(SearchUrl(call.name, call.filter))
    /\ UNCHANGED <<call, fetchVars, appVars, monitor>>

SpecSearchUrl == InitSearchUrl /\ [][CallSearchUrl]_vars

\* the token the specification gives for each filter value
C13_Token ==
    [v \in StatusFilter |->
        CASE v = "New" -> "New"
          [] v = "Incomplete" -> "Incomplete"
          [] v = "Opinion" -> "Opinion"
          [] v = "Invalid" -> "Invalid"
          [] v = "WontFix" -> "Won't+Fix"
          [] v = "Confirmed" -> "Confirmed"
          [] v = "Triaged" -> "Triaged"
          [] v = "InProgress" -> "In+Progress"
          [] v = "Deferred" -> "Deferred"
          [] v = "FixCommitted" -> "Fix+Committed"
          [] v = "FixReleased" -> "Fix+Released"]

\* C13: the first search URL is {base}/{project}?ws.op=searchTasks without a
\* filter and {base}/{project}?ws.op=searchTasks&status=<token> with one,
\* <token> being the literal token of the filter value; the mapping is defined
\* for each of the 11 filter values and gives different tokens (hence
\* different URLs) for different values.
C13_SearchUrlTokens ==
    /\ Cardinality(StatusFilter) = 11
    /\ \A v, w \in StatusFilter :
          v # w => /\ StatusFilterToString(v) # StatusFilterToString(w)
                   /\ \A p \in ProjectNames :
                         SearchUrl(p, Some(v)) # SearchUrl(p, Some(w))
    /\ (call.fn = "search_url" /\ ret # None) =>
          Unwrap(ret) =
             IF call.filter = None
             THEN <<"https://api.launchpad.net/1.0", "/">> \o call.name
                  \o <<"?ws.op=searchTasks">>
             ELSE <<"https://api.launchpad.net/1.0", "/">> \o call.name
                  \o <<"?ws.op=searchTasks&status=",
                       C13_Token[Unwrap(call.filter)]>>

\* C13: the URL for the filter WontFix has been built, with its token
C13_Witness ==
    /\ call.fn = "search_url"
    /\ call.filter = Some("WontFix")
    /\ ret # None
    /\ Unwrap(ret)[Len(Unwrap(ret))] = "Won't+Fix"

-----------------------------------------------------------------------------
(* The application: messages, background tasks and their outcomes *)

\* the project whose bugs are listed
PROJECT == Str("nova")

\* mpsc::channel::<LpMessage>(5)
LpChannelCapacity == 5

\* most tasks spawned by key presses in one run
MaxSpawned == 1

\* enum LpMessage; from is the index in tasks of the task that built it
MsgBugs(bugs, i) == [variant |-> "Bugs", bugs |-> bugs, from |-> i]
MsgBug(bug, i) == [variant |-> "Bug", bug |-> bug, from |-> i]
MsgError(e, i) == [variant |-> "Error", e |-> e, from |-> i]

\* Option<DateTime<Utc>>::cmp(a, b) = Less: None is below every Some
DateLess(a, b) ==
    IF a = None THEN b # None
    ELSE IF b = None THEN FALSE
    ELSE Unwrap(a) < Unwrap(b)

RECURSIVE InsertByDateDesc(_, _)
\* e put behind every entry of the sorted list that is not older than e
InsertByDateDesc(e, sorted) ==
    IF sorted = <<>> THEN <<e>>
    ELSE IF DateLess(Head(sorted).ts["date_created"], e.ts["date_created"])
         THEN <<e>> \o sorted
         ELSE <<Head(sorted)>> \o InsertByDateDesc(e, Tail(sorted))

RECURSIVE SortByDateCreatedDesc(_)
\* bug_tasks.sort_by(|a, b| b.date_created.cmp(&a.date_created)), stable
SortByDateCreatedDesc(bug_tasks) ==
    IF bug_tasks = <<>> THEN <<>>
    ELSE InsertByDateDesc(bug_tasks[Len(bug_tasks)],
                          SortByDateCreatedDesc(SubSeq(bug_tasks, 1, Len(bug_tasks) - 1)))

\* decoded entries: bug 1 created at 10, bug 2 without date_created, bug 3
\* created at 12
Entry(id, created) == DecodeRecord(WireEntry(id, created)).val

\* what get_project_bug_tasks(client, PROJECT, Some(New)) may return to a task
FetchBugsOutcomes ==
    {Ok(<<Entry(1, TsDate(10, 0)), Entry(3, TsDate(12, 0))>>),
     Ok(<<Entry(2, TsEmpty), Entry(1, TsDate(10, 0))>>),
     HttpRequestErr,
     InvalidProjectErr(PROJECT)}

\* what lp_get_bug(client, bug_id) may return to a task
FetchBugOutcomes(bug_id) ==
    {get_bug(bug_id, resp) :
        resp \in {HttpFailBug, HttpOk(BugNotJson),
                  HttpOk(WireBug(Some(BugUrl(bug_id)), IdNumber(bug_id), TsDate(10, 0)))}}

\* what get_gemini_response(model, prompt) may return to a task
AiOutcomes ==
    {[ok |-> TRUE, text |-> Str("generated answer")],
     [ok |-> FALSE, text |-> Str("request failed")]}

\* the text an AI task leaves in gemini_response
AiText(r) ==
    IF r.ok THEN r.text                                     \* response.text()
    ELSE Str("Error while fetching the response: ") \o r.text

\* a task handed to tokio::spawn: pc is "spawned" until its request has
\* returned, then "fetched" until it has sent the outcome or, for an AI task,
\* locked the text buffer ("locked" while it holds the guard), then "done";
\* out is the outcome in hand, sends counts the calls of Sender::send, logged
\* the calls of error!
Task(kind, arg) ==
    [kind |-> kind, arg |-> arg, pc |-> "spawned", out |-> None,
     sends |-> 0, logged |-> 0]

FetchKinds == {"get_bugs", "get_bug"}
AiKinds == {"ai", "ai_static"}

\* the event loop has returned or unwound: launchpad_to_app_rx is dropped
ReceiverDropped == loop_pc \in {"exited", "panicked"}

\* tasks spawned by a key press: all but the two that run spawns itself
Spawned == Len(tasks) - 2

-----------------------------------------------------------------------------
(* The background tasks *)

uiVars == <<active_panel, current_screen, spinner_enabled, bug_table_items,
            bug_table_selected,
            bug_table_rows, bug_table_scrollbar_state, current_bug,
            bug_reply_text>>

\* the Mutex behind gemini_response is held by the task whose guard is alive
LockHolders == {i \in 1..Len(tasks) : tasks[i].pc = "locked"}

\* the positions at which the loop is suspended in an await of a key handler
Suspended == {"sending_prompt", "xdg_open", "editor"}

\* a loop keeping the guard it copies the text under until its handler
\* returns
LoopGuard_until_return(p) == p \in {"sending_prompt", "editor"}

\* events.rs 170, 189, 202 and 191-194: a guard of the loop is alive at
\* position p. Each guard is a temporary of a block that ends before the
\* handler spawns or awaits, so none is alive at a position of the loop.
LoopGuard(p) == FALSE

\* Mutex::lock returns at once
LockFree == LockHolders = {} /\ ~LoopGuard(loop_pc)

\* what the application leaves alone
notAppVars == <<call, ret, fetchVars, monitor>>

\* the message of a fetch task with the list in the order it was fetched
FetchMessage_unsorted(kind, r, i) ==
    IF ~r.ok THEN MsgError(r, i)
    ELSE IF kind = "get_bugs" THEN MsgBugs(r.val, i)
    ELSE MsgBug(r.val, i)

\* the message a fetch task builds from the value r its request returned
FetchMessage(kind, r, i) ==
    IF ~r.ok THEN MsgError(r, i)
    ELSE IF kind = "get_bugs" THEN MsgBugs(SortByDateCreatedDesc(r.val), i)
    ELSE MsgBug(r.val, i)

\* a fetch task that unwraps the value its request returned
TaskFetch_unwrap(i) ==
    /\ tasks[i].kind \in FetchKinds
    /\ tasks[i].pc = "spawned"
    /\ \E r \in (IF tasks[i].kind = "get_bugs" THEN FetchBugsOutcomes
                 ELSE FetchBugOutcomes(tasks[i].arg)) :
          tasks' = IF r.ok
                   THEN [tasks EXCEPT ![i].pc = "fetched",
                                      ![i].out = Some(FetchMessage(tasks[i].kind, r, i))]
                   ELSE [tasks EXCEPT ![i].pc = "panicked"]
    /\ net' = net \cup {[by |-> i, call |-> tasks[i].kind]}
    /\ UNCHANGED <<notAppVars, loop_pc, uiVars, gemini_response, lp_channel, consumed>>

\* app.rs 160, 222: the request of fetch task i returns
TaskFetch(i) ==
    /\ tasks[i].kind \in FetchKinds
    /\ tasks[i].pc = "spawned"
    /\ \E r \in (IF tasks[i].kind = "get_bugs" THEN FetchBugsOutcomes
                 ELSE FetchBugOutcomes(tasks[i].arg)) :
          tasks' = [tasks EXCEPT ![i].pc = "fetched",
                                 ![i].out = Some(FetchMessage(tasks[i].kind, r, i))]
    /\ net' = net \cup {[by |-> i, call |-> tasks[i].kind]}
    /\ UNCHANGED <<notAppVars, loop_pc, uiVars, gemini_response, lp_channel, consumed>>

\* a fetch task that sends nothing when its request failed
TaskSend_success_only(i) ==
    /\ tasks[i].kind \in FetchKinds
    /\ tasks[i].pc = "fetched"
    /\ IF Unwrap(tasks[i].out).variant = "Error" \/ ReceiverDropped
       THEN /\ tasks' = [tasks EXCEPT ![i].pc = "done"]
            /\ UNCHANGED lp_channel
       ELSE /\ Len(lp_channel) < LpChannelCapacity
            /\ lp_channel' = Append(lp_channel, Unwrap(tasks[i].out))
            /\ tasks' = [tasks EXCEPT ![i].pc = "done", ![i].sends = @ + 1]
    /\ UNCHANGED <<notAppVars, loop_pc, uiVars, gemini_response, net, consumed>>

\* a fetch task that unwraps the result of send
TaskSend_unwrap(i) ==
    /\ tasks[i].kind \in FetchKinds
    /\ tasks[i].pc = "fetched"
    /\ IF ReceiverDropped
       THEN /\ tasks' = [tasks EXCEPT ![i].pc = "panicked", ![i].sends = @ + 1]
            /\ UNCHANGED lp_channel
       ELSE /\ Len(lp_channel) < LpChannelCapacity
            /\ lp_channel' = Append(lp_channel, Unwrap(tasks[i].out))
            /\ tasks' = [tasks EXCEPT ![i].pc = "done", ![i].sends = @ + 1]
    /\ UNCHANGED <<notAppVars, loop_pc, uiVars, gemini_response, net, consumed>>

\* a fetch task whose message overtakes the messages already queued
TaskSend_prepend(i) ==
    /\ tasks[i].kind \in FetchKinds
    /\ tasks[i].pc = "fetched"
    /\ IF ReceiverDropped
       THEN /\ tasks' = [tasks EXCEPT ![i].pc = "done", ![i].sends = @ + 1,
                                      ![i].logged = @ + 1]
            /\ UNCHANGED lp_channel
       ELSE /\ Len(lp_channel) < LpChannelCapacity
            /\ lp_channel' = <<Unwrap(tasks[i].out)>> \o lp_channel
            /\ tasks' = [tasks EXCEPT ![i].pc = "done", ![i].sends = @ + 1]
    /\ UNCHANGED <<notAppVars, loop_pc, uiVars, gemini_response, net, consumed>>

\* a fetch task sending on a channel without a capacity
TaskSend_unbounded(i) ==
    /\ tasks[i].kind \in FetchKinds
    /\ tasks[i].pc = "fetched"
    /\ IF ReceiverDropped
       THEN /\ tasks' = [tasks EXCEPT ![i].pc = "done", ![i].sends = @ + 1,
                                      ![i].logged = @ + 1]
            /\ UNCHANGED lp_channel
       ELSE /\ lp_channel' = Append(lp_channel, Unwrap(tasks[i].out))
            /\ tasks' = [tasks EXCEPT ![i].pc = "done", ![i].sends = @ + 1]
    /\ UNCHANGED <<notAppVars, loop_pc, uiVars, gemini_response, net, consumed>>

\* app.rs 164-175, 224-231: sender.send(msg).await of fetch task i returns.
\* With the receiver dropped it returns Err, which is logged; with room in
\* the channel the message is queued; with the channel full it waits.
TaskSend(i) ==
    /\ tasks[i].kind \in FetchKinds
    /\ tasks[i].pc = "fetched"
    /\ IF ReceiverDropped
       THEN /\ tasks' = [tasks EXCEPT ![i].pc = "done", ![i].sends = @ + 1,
                                      ![i].logged = @ + 1]
            /\ UNCHANGED lp_channel
       ELSE /\ Len(lp_channel) < LpChannelCapacity
            /\ lp_channel' = Append(lp_channel, Unwrap(tasks[i].out))
            /\ tasks' = [tasks EXCEPT ![i].pc = "done", ![i].sends = @ + 1]
    /\ UNCHANGED <<notAppVars, loop_pc, uiVars, gemini_response, net, consumed>>

\* events.rs 175: get_gemini_response(model, prompt).await of AI task i
\* returns (lib.rs 72 for the task run spawns)
TaskAiRequest(i) ==
    /\ tasks[i].kind \in AiKinds
    /\ tasks[i].pc = "spawned"
    /\ \E r \in AiOutcomes :
          tasks' = [tasks EXCEPT ![i].pc = "fetched", ![i].out = Some(r)]
    /\ net' = net \cup {[by |-> i, call |-> tasks[i].kind]}
    /\ UNCHANGED <<notAppVars, loop_pc, uiVars, gemini_response, lp_channel, consumed>>

\* an AI task that posts its outcome on the channel like a fetch task
TaskAiWrite_send(i) ==
    /\ tasks[i].kind \in AiKinds
    /\ tasks[i].pc = "locked"
    /\ ~ReceiverDropped
    /\ Len(lp_channel) < LpChannelCapacity
    /\ lp_channel' = Append(lp_channel, MsgError(HttpRequestErr, i))
    /\ tasks' = [tasks EXCEPT ![i].pc = "done", ![i].sends = @ + 1]
    /\ UNCHANGED <<notAppVars, loop_pc, uiVars, gemini_response, net, consumed>>

\* an AI task that takes the guard without waiting for the holder
TaskAiLock_no_exclusion(i) ==
    /\ tasks[i].kind \in AiKinds
    /\ tasks[i].pc = "fetched"
    /\ tasks' = [tasks EXCEPT ![i].pc = "locked"]
    /\ UNCHANGED <<notAppVars, loop_pc, uiVars, gemini_response, lp_channel, net,
                   consumed>>

\* events.rs 177, 181 (lib.rs 74, 80): gemini_response.lock() of AI task i
\* returns once no other guard is alive
TaskAiLock(i) ==
    /\ tasks[i].kind \in AiKinds
    /\ tasks[i].pc = "fetched"
    /\ LockFree
    /\ tasks' = [tasks EXCEPT ![i].pc = "locked"]
    /\ UNCHANGED <<notAppVars, loop_pc, uiVars, gemini_response, lp_channel, net,
                   consumed>>

\* events.rs 178, 182 (lib.rs 77, 81): AI task i stores the text of its
\* outcome through the guard and drops the guard
TaskAiWrite(i) ==
    /\ tasks[i].kind \in AiKinds
    /\ tasks[i].pc = "locked"
    /\ gemini_response' = AiText(Unwrap(tasks[i].out))
    /\ tasks' = [tasks EXCEPT ![i].pc = "done"]
    /\ UNCHANGED <<notAppVars, loop_pc, uiVars, lp_channel, net, consumed>>

-----------------------------------------------------------------------------
(* The event loop and the key handlers *)

\* what a key handler may change besides screen, panel and loop position
handlerVars == <<spinner_enabled, bug_table_items, bug_table_selected,
                 bug_table_rows, bug_table_scrollbar_state, current_bug,
                 gemini_response, lp_channel, tasks, net, consumed>>

\* App::toggle_spinner
App_toggle_spinner ==
    /\ spinner_enabled' = ~spinner_enabled
    /\ UNCHANGED <<bug_table_items, bug_table_selected,
                   bug_table_rows, bug_table_scrollbar_state, current_bug,
                   gemini_response,
                   lp_channel, tasks, net, consumed>>

\* App::get_bugs waiting for the fetch and posting the message itself
App_get_bugs_inline(project) ==
    /\ spinner_enabled' = TRUE
    /\ \E r \in FetchBugsOutcomes :
          /\ Len(lp_channel) < LpChannelCapacity
          /\ lp_channel' = Append(lp_channel, FetchMessage("get_bugs", r, 0))
    /\ net' = net \cup {[by |-> 0, call |-> "get_bugs"]}
    /\ UNCHANGED <<bug_table_items, bug_table_selected,
                   bug_table_rows, bug_table_scrollbar_state, current_bug,
                   gemini_response,
                   tasks, consumed>>

\* App::get_bugs: the flag is set, the task is spawned, the call returns
App_get_bugs(project) ==
    /\ spinner_enabled' = TRUE
    /\ tasks' = Append(tasks, Task("get_bugs", project))
    /\ UNCHANGED <<bug_table_items, bug_table_selected,
                   bug_table_rows, bug_table_scrollbar_state, current_bug,
                   gemini_response,
                   lp_channel, net, consumed>>

\* App::get_bug: the flag is set, the task is spawned, the call returns
App_get_bug(bug_id) ==
    /\ spinner_enabled' = TRUE
    /\ tasks' = Append(tasks, Task("get_bug", bug_id))
    /\ UNCHANGED <<bug_table_items, bug_table_selected,
                   bug_table_rows, bug_table_scrollbar_state, current_bug,
                   gemini_response,
                   lp_channel, net, consumed>>

\* BugTaskEntry::get_id
get_id(bug_entry) == bug_entry.bug_link

\* handle_bug_description, key 'a': the text is copied under the lock and
\* the task is spawned with it
SpawnAi ==
    /\ tasks' = Append(tasks, Task("ai", gemini_response))
    /\ UNCHANGED <<spinner_enabled, bug_table_items, bug_table_selected,
                   bug_table_rows, bug_table_scrollbar_state, current_bug,
                   gemini_response, lp_channel, net, consumed>>

Keys == {"q", "s", "r", "Enter", "a", "Tab", "Esc"}

OtherPanel(p) == IF p = "Right" THEN "Left" ELSE "Right"

\* screen keys with Esc leaving the editing screen on the panel it was on
ScreenKeys_esc_keeps_panel(key) ==
    IF key = "Tab"
    THEN [screen |-> current_screen, panel |-> OtherPanel(active_panel)]
    ELSE IF key = "Esc" /\ current_screen = "BugEditing"
         THEN [screen |-> "BugList", panel |-> active_panel]
    ELSE [screen |-> current_screen, panel |-> active_panel]

\* screen and panel after handle_bug_list_screen_keys or
\* handle_bug_editing_screen_keys
ScreenKeys(key) ==
    IF key = "Tab"
    THEN [screen |-> current_screen, panel |-> OtherPanel(active_panel)]
    ELSE IF key = "Esc" /\ current_screen = "BugEditing"
         THEN [screen |-> "BugList", panel |-> "Left"]
    ELSE [screen |-> current_screen, panel |-> active_panel]

\* the handler handle_key_events gives the key to after the screen keys
PanelHandler(mode) ==
    IF mode.screen = "BugList"
    THEN IF mode.panel = "Left" THEN "handle_bug_table" ELSE "handle_bug_description"
    ELSE IF mode.panel = "Left" THEN "handle_bug_description" ELSE "handle_bug_reply"

\* the key makes a handler spawn a task
Spawns(key, handler) ==
    \/ handler = "handle_bug_table" /\ key = "r"
    \/ /\ handler = "handle_bug_table" /\ key = "Enter"
       /\ bug_table_selected # None
       /\ Unwrap(bug_table_selected) < Len(bug_table_items)
    \/ handler = "handle_bug_description" /\ key = "a"

\* the key makes a handler send a prompt on app_sender
SendsPrompt(key, mode, handler) ==
    /\ key = "Enter"
    /\ \/ handler = "handle_bug_reply"
       \/ handler = "handle_bug_description" /\ mode.screen = "BugEditing"

\* handle_global_keys with 'q' a quit key in the bug list screen only
handle_global_keys_list_only(key) ==
    IF key = "q" /\ current_screen = "BugList" THEN "Yes" ELSE "No"

\* what handle_global_keys returns (QuitApp); its call of toggle_spinner for
\* 's' is part of HandleKey
handle_global_keys(key) == IF key = "q" THEN "Yes" ELSE "No"

\* the key makes handle_bug_description leave the list for the editing screen
EntersEditing(key, mode, handler) ==
    key = "Enter" /\ handler = "handle_bug_description" /\ mode.screen = "BugList"

\* the key makes handle_bug_description run xdg-open and wait for its exit
OpensUrl(key, handler) ==
    /\ key = "v" /\ handler = "handle_bug_description"
    /\ bug_table_selected # None
    /\ Unwrap(bug_table_selected) < Len(bug_table_items)

\* the key makes a handler call edit_content_in_editor
Edits(key, handler) ==
    key = "e" /\ handler \in {"handle_bug_description", "handle_bug_reply"}

\* the key makes a handler lock gemini_response before it returns or waits
Locks(key, mode, handler) ==
    /\ handler = "handle_bug_description"
    /\ key \in {"a", "e"} \/ (key = "Enter" /\ mode.screen = "BugEditing")

\* the newest fetch task of the kind of task i
LatestOfKind(i) ==
    CHOOSE j \in 1..Len(tasks) :
        /\ tasks[j].kind = tasks[i].kind
        /\ \A k \in 1..Len(tasks) : tasks[k].kind = tasks[i].kind => k <= j

\* the loop accepting a result only from the newest request of its kind
Drain_discard_stale ==
    /\ loop_pc = "drain"
    /\ IF lp_channel = <<>>
       THEN /\ loop_pc' = "input"
            /\ UNCHANGED <<spinner_enabled, bug_table_items, bug_table_selected,
                           bug_table_rows, bug_table_scrollbar_state, current_bug,
                           lp_channel, consumed>>
       ELSE LET msg == Head(lp_channel) IN
            /\ consumed' = Append(consumed, msg)
            /\ lp_channel' = Tail(lp_channel)
            /\ loop_pc' = "input"
            /\ IF msg.variant = "Bugs" /\ msg.from = LatestOfKind(msg.from)
               THEN /\ bug_table_items' = msg.bugs
                    /\ spinner_enabled' = FALSE
                    /\ bug_table_selected' = Some(0)
                    /\ bug_table_scrollbar_state' = ScrollbarState_new(Len(bug_table_items'))
                    /\ UNCHANGED <<bug_table_rows, current_bug>>
               ELSE UNCHANGED <<spinner_enabled, bug_table_items,
                               bug_table_selected,
                               bug_table_rows, bug_table_scrollbar_state, current_bug>>
    /\ UNCHANGED <<notAppVars, active_panel, current_screen, gemini_response,
                   bug_reply_text, tasks, net>>

\* the loop receiving until the channel is empty: every queued Bugs message
\* is applied in turn, so the list shown is the last one
Drain_until_empty ==
    /\ loop_pc = "drain"
    /\ IF lp_channel = <<>>
       THEN /\ loop_pc' = "input"
            /\ UNCHANGED <<spinner_enabled, bug_table_items, bug_table_selected,
                           bug_table_rows, bug_table_scrollbar_state, current_bug,
                           lp_channel, consumed>>
       ELSE /\ consumed' = consumed \o lp_channel
            /\ lp_channel' = <<>>
            /\ IF \A k \in 1..Len(lp_channel) : lp_channel[k].variant = "Bugs"
               THEN /\ bug_table_items' = lp_channel[Len(lp_channel)].bugs
                    /\ spinner_enabled' = FALSE
                    /\ bug_table_selected' = Some(0)
                    /\ bug_table_scrollbar_state' = ScrollbarState_new(Len(bug_table_items'))
                    /\ UNCHANGED <<bug_table_rows, current_bug>>
                    /\ loop_pc' = "input"
               ELSE /\ loop_pc' = "panicked"
                    /\ UNCHANGED <<spinner_enabled, bug_table_items,
                                   bug_table_selected,
                                   bug_table_rows, bug_table_scrollbar_state, current_bug>>
    /\ UNCHANGED <<notAppVars, active_panel, current_screen, gemini_response,
                   bug_reply_text, tasks, net>>

\* lib.rs 95-109: the frame is drawn and try_recv is called once. An empty
\* channel changes nothing; Bugs replaces the list; every other message
\* reaches unimplemented!() and run unwinds.
Drain ==
    /\ loop_pc = "drain"
    /\ IF lp_channel = <<>>
       THEN /\ loop_pc' = "input"
            /\ UNCHANGED <<spinner_enabled, bug_table_items, bug_table_selected,
                           bug_table_rows, bug_table_scrollbar_state, current_bug,
                           lp_channel, consumed>>
       ELSE LET msg == Head(lp_channel) IN
            /\ consumed' = Append(consumed, msg)
            /\ IF msg.variant = "Bugs"
               THEN /\ bug_table_items' = msg.bugs
                    /\ spinner_enabled' = FALSE
                    /\ bug_table_selected' = Some(0)
                    /\ bug_table_scrollbar_state' = ScrollbarState_new(Len(bug_table_items'))
                    /\ UNCHANGED <<bug_table_rows, current_bug>>
                    /\ lp_channel' = Tail(lp_channel)
                    /\ loop_pc' = "input"
               ELSE /\ loop_pc' = "panicked"
                    /\ lp_channel' = <<>>
                    /\ UNCHANGED <<spinner_enabled, bug_table_items,
                                   bug_table_selected,
                                   bug_table_rows, bug_table_scrollbar_state, current_bug>>
    /\ UNCHANGED <<notAppVars, active_panel, current_screen, gemini_response,
                   bug_reply_text, tasks, net>>

\* lib.rs 111-112: event::poll(timeout) ends without a key press
NoKey ==
    /\ loop_pc = "input"
    /\ loop_pc' = "drain"
    /\ UNCHANGED <<notAppVars, uiVars, gemini_response, lp_channel, tasks, net,
                   consumed>>

\* lib.rs 113-118 and handle_key_events: one key press is handled, up to the
\* return of the handlers or to the first operation a handler waits for
HandleKey(key) ==
    /\ loop_pc = "input"
    /\ IF handle_global_keys(key) = "Yes"
       THEN \* handle_key_events returns QuitApp::Yes and run leaves the loop
            /\ loop_pc' = "exited"
            /\ lp_channel' = <<>>
            /\ UNCHANGED <<uiVars, gemini_response, tasks, net, consumed>>
       ELSE LET mode == ScreenKeys(key)
                handler == PanelHandler(mode)
            IN /\ Spawns(key, handler) => Spawned < MaxSpawned
               /\ Locks(key, mode, handler) => LockFree
               /\ IF key = "s" THEN App_toggle_spinner
                  ELSE IF ~Spawns(key, handler) THEN UNCHANGED handlerVars
                  ELSE IF key = "r" THEN App_get_bugs(PROJECT)
                  ELSE IF key = "Enter"
                       THEN App_get_bug(get_id(bug_table_items[Unwrap(bug_table_selected) + 1]))
                  ELSE SpawnAi
               /\ IF EntersEditing(key, mode, handler)
                  THEN /\ current_screen' = "BugEditing"
                       /\ active_panel' = "Left"
                       /\ bug_reply_text' = Str("No bug replied yet.")
                  ELSE /\ current_screen' = mode.screen
                       /\ active_panel' = mode.panel
                       /\ UNCHANGED bug_reply_text
               /\ loop_pc' = IF SendsPrompt(key, mode, handler) THEN "sending_prompt"
                             ELSE IF OpensUrl(key, handler) THEN "xdg_open"
                             ELSE IF Edits(key, handler) THEN "editor"
                             ELSE "drain"
    /\ UNCHANGED notAppVars

\* events.rs 205-206, 244-245: app_sender.send(..).await returns Ok and the
\* flag is set
PromptSent ==
    /\ loop_pc = "sending_prompt"
    /\ spinner_enabled' = TRUE
    /\ loop_pc' = "drain"
    /\ UNCHANGED <<notAppVars, active_panel, current_screen, bug_table_items,
                   bug_table_selected,
                   bug_table_rows, bug_table_scrollbar_state, current_bug,
                   gemini_response, bug_reply_text,
                   lp_channel, tasks, net, consumed>>

\* events.rs 205, 244: app_sender.send(..).await returns Err, which `?`
\* hands to run, which returns it
PromptSendFailed ==
    /\ loop_pc = "sending_prompt"
    /\ loop_pc' = "exited"
    /\ lp_channel' = <<>>
    /\ UNCHANGED <<notAppVars, uiVars, gemini_response, tasks, net, consumed>>

\* what the editor may leave in the file
EditorOutputs == {Str("edited text")}

\* events.rs 156-163: xdg-open has exited and status().await returns Ok; a
\* failure status is only logged
XdgOpenExit ==
    /\ loop_pc = "xdg_open"
    /\ loop_pc' = "drain"
    /\ UNCHANGED <<notAppVars, uiVars, gemini_response, lp_channel, tasks, net,
                   consumed>>

\* events.rs 190-194, 249-250: the editor has exited with success and
\* edit_content_in_editor returns the content of the file, which
\* handle_bug_description stores in gemini_response under the lock and
\* handle_bug_reply in bug_reply_text
EditorExit ==
    /\ loop_pc = "editor"
    /\ \E updated \in EditorOutputs :
          IF PanelHandler([screen |-> current_screen, panel |-> active_panel])
                = "handle_bug_description"
          THEN /\ LockFree
               /\ gemini_response' = updated
               /\ UNCHANGED bug_reply_text
          ELSE /\ bug_reply_text' = updated
               /\ UNCHANGED gemini_response
    /\ loop_pc' = "drain"
    /\ UNCHANGED <<notAppVars, active_panel, current_screen, spinner_enabled,
                   bug_table_items, bug_table_selected,
                   bug_table_rows, bug_table_scrollbar_state, current_bug,
                   lp_channel, tasks, net,
                   consumed>>

\* events.rs 159, 190, 249: the command could not be run, or the editor
\* exited with an error; `?` hands the Err to run, which returns it
CommandFailed ==
    /\ loop_pc \in {"xdg_open", "editor"}
    /\ loop_pc' = "exited"
    /\ lp_channel' = <<>>
    /\ UNCHANGED <<notAppVars, uiVars, gemini_response, tasks, net, consumed>>

\* lib.rs 63-91: the state when run enters its loop
InitApp ==
    /\ call = [fn |-> "run"]
    /\ ret = None
    /\ FetchIdle
    /\ MonitorIdle
    /\ loop_pc = "drain"
    /\ active_panel = "Left"
    /\ current_screen = "BugList"
    /\ spinner_enabled = TRUE
    /\ bug_table_items = <<>>
    /\ bug_table_selected = None
    /\ bug_table_rows = <<>>
    /\ bug_table_scrollbar_state = ScrollbarState_new(0)
    /\ current_bug = None
    /\ gemini_response = Str("Loading response from Gemini...")
    /\ bug_reply_text = Str("")
    /\ lp_channel = <<>>
    /\ tasks = <<Task("ai_static", <<>>), Task("get_bugs", PROJECT)>>
    /\ net = {}
    /\ consumed = <<>>

NextApp ==
    \/ Drain
    \/ NoKey
    \/ \E key \in Keys : HandleKey(key)
    \/ PromptSent
    \/ PromptSendFailed
    \/ \E i \in 1..Len(tasks) : TaskFetch(i)
    \/ \E i \in 1..Len(tasks) : TaskSend(i)
    \/ \E i \in 1..Len(tasks) : TaskAiRequest(i)
    \/ \E i \in 1..Len(tasks) : TaskAiLock(i)
    \/ \E i \in 1..Len(tasks) : TaskAiWrite(i)

SpecApp == InitApp /\ [][NextApp]_vars

\* every key the handlers tell apart, and one they do not ("x")
UiKeys == Keys \cup {"v", "e", "x"}

\* the application with every key, the key presses that spawn a task left out
NextUi ==
    \/ Drain
    \/ NoKey
    \/ \E key \in UiKeys : HandleKey(key) /\ UNCHANGED tasks
    \/ PromptSent
    \/ PromptSendFailed
    \/ XdgOpenExit
    \/ EditorExit
    \/ CommandFailed
    \/ \E i \in 1..Len(tasks) : TaskFetch(i)
    \/ \E i \in 1..Len(tasks) : TaskSend(i)
    \/ \E i \in 1..Len(tasks) : TaskAiRequest(i)
    \/ \E i \in 1..Len(tasks) : TaskAiLock(i)
    \/ \E i \in 1..Len(tasks) : TaskAiWrite(i)

SpecUi == InitApp /\ [][NextUi]_vars

-----------------------------------------------------------------------------
(* Properties of the background tasks and the event loop (specification
   SpecApp) *)

\* the messages of task i that are queued or were handed to the loop
MessagesFrom(i) ==
    Len(SelectSeq(lp_channel, LAMBDA msg : msg.from = i))
    + Len(SelectSeq(consumed, LAMBDA msg : msg.from = i))

\* C14: a fetch task calls send never before its request has returned and
\* exactly once after it: a task that is done has made one call of send, with
\* a Bugs message (get_bugs) or a Bug message (get_bug) when the request
\* succeeded and an Error message when it failed, and at no time are there
\* two messages of one task.
C14_ExactlyOneSend ==
    \A i \in 1..Len(tasks) :
        tasks[i].kind \in FetchKinds =>
            /\ tasks[i].pc \in {"spawned", "fetched", "done"}
            /\ tasks[i].pc \in {"spawned", "fetched"} =>
                  tasks[i].sends = 0 /\ MessagesFrom(i) = 0
            /\ tasks[i].pc = "done" =>
                  /\ tasks[i].sends = 1
                  /\ MessagesFrom(i) <= 1
                  /\ tasks[i].logged = 0 /\ ~ReceiverDropped => MessagesFrom(i) = 1
            /\ tasks[i].out # None =>
                  Unwrap(tasks[i].out).variant \in
                     {IF tasks[i].kind = "get_bugs" THEN "Bugs" ELSE "Bug", "Error"}

\* C14: a get_bugs task has sent Bugs, and a get_bug task whose request
\* failed has sent Error, each with one call of send
C14_Witness ==
    \E i, j \in 1..Len(tasks) :
        /\ tasks[i].kind = "get_bugs" /\ tasks[i].pc = "done"
        /\ Unwrap(tasks[i].out).variant = "Bugs" /\ tasks[i].sends = 1
        /\ tasks[j].kind = "get_bug" /\ tasks[j].pc = "done"
        /\ Unwrap(tasks[j].out).variant = "Error" /\ tasks[j].sends = 1
        /\ MessagesFrom(j) = 1

InFlight(i) ==
    /\ tasks[i].kind \in FetchKinds
    /\ \A k \in 1..Len(consumed) : consumed[k].from # i

\* C16 as stated: spinner_enabled is true once a fetch task is spawned, and a
\* step takes it from true to false only by consuming the message of a fetch
\* task, with no other fetch task left in flight after it.
C16_FlagClearedOnlyByConsumption ==
    [][/\ Len(tasks') > Len(tasks) /\ tasks'[Len(tasks')].kind \in FetchKinds
          => spinner_enabled'
       /\ spinner_enabled /\ ~spinner_enabled'
          => /\ Len(consumed') = Len(consumed) + 1
             /\ \A i \in 1..Len(tasks) :
                   InFlight(i) => consumed'[Len(consumed')].from = i]_vars

\* C16: the flag is false while the fetch task spawned at startup is in
\* flight and the loop is running
C16_FlagFalseInFlight ==
    /\ loop_pc \in {"drain", "input"}
    /\ ~spinner_enabled
    /\ consumed = <<>>
    /\ InFlight(2)
    /\ Len(tasks) = 2

C18_SendFailureOnlyLogged ==
    [][\A i \in 1..Len(tasks) :
          /\ tasks'[i].pc \in {"spawned", "fetched", "locked", "done"}
          /\ tasks[i].pc = "done" => tasks'[i] = tasks[i]
          /\ (tasks[i].kind \in FetchKinds /\ tasks[i].pc = "fetched"
              /\ tasks'[i].pc # "fetched" /\ ReceiverDropped)
             => /\ tasks'[i].pc = "done"
                /\ tasks'[i].sends = 1
                /\ tasks'[i].logged = 1
                /\ \A j \in 1..Len(tasks) : j # i => tasks'[j] = tasks[j]
                /\ Len(tasks') = Len(tasks)
                /\ UNCHANGED <<loop_pc, uiVars, gemini_response, lp_channel,
                               consumed>>]_vars

\* C18: the loop has exited on 'q' and a task that fetched afterwards has
\* ended its send with the failure logged
C18_Witness ==
    /\ loop_pc = "exited"
    /\ \E i \in 1..Len(tasks) :
          /\ tasks[i].kind \in FetchKinds
          /\ tasks[i].pc = "done"
          /\ tasks[i].sends = 1
          /\ tasks[i].logged = 1
          /\ lp_channel = <<>>

\* C20: every network request is made by a task in tasks, none by the event
\* loop (by = 0). The step in which a key handler calls App::get_bugs or
\* App::get_bug (or spawns the AI request) only appends the task, not yet
\* started, makes no request, and takes the loop on to its next tick; a step
\* of a task never moves the loop, and the loop's steps of drawing, receiving
\* and polling for input never wait for a task.
C20_LoopNeverFetches ==
    [][/\ \A n \in net' : n.by \in 1..Len(tasks')
       /\ Len(tasks') > Len(tasks)
          => /\ tasks' = Append(tasks, tasks'[Len(tasks')])
             /\ tasks'[Len(tasks')].pc = "spawned"
             /\ net' = net
             /\ loop_pc = "input" /\ loop_pc' = "drain"
       /\ (Len(tasks') = Len(tasks) /\ tasks' # tasks) => loop_pc' = loop_pc
       /\ (loop_pc \in {"drain", "input"} /\ loop_pc' # loop_pc)
          => \A i \in 1..Len(tasks) : tasks'[i] = tasks[i]]_vars

\* C20: with the startup fetch still waiting for its answer the loop has
\* handled 'r', spawning a second fetch that has made its request, and has
\* drawn again and is polling for input with both in flight
C20_Witness ==
    /\ Len(tasks) = 3
    /\ tasks[2].kind = "get_bugs" /\ tasks[2].pc = "spawned"
    /\ tasks[3].kind = "get_bugs" /\ tasks[3].pc = "fetched"
    /\ [by |-> 3, call |-> "get_bugs"] \in net
    /\ loop_pc = "input"
    /\ consumed = <<>>

-----------------------------------------------------------------------------
(* JoinHandleMonitor *)

\* most calls of is_finished in one run
MaxPolls == 10

\* how the task behind the handle can end: it returns, it panics, or the
\* runtime cancels it
TaskEnds == {"returned", "panicked", "cancelled"}

\* Result<T, JoinError> of a task that has ended
JoinResult(task) ==
    IF task = "returned" THEN [ok |-> TRUE, err |-> ""]
    ELSE [ok |-> FALSE, err |-> task]

\* JoinHandle::poll with the no-op waker: Pending while the task runs,
\* Ready with its result once it has ended
JoinHandlePoll(task) ==
    IF task = "running" THEN [ready |-> FALSE, res |-> None]
    ELSE [ready |-> TRUE, res |-> Some(JoinResult(task))]

\* is_finished reporting only a normal end
is_finished_ok_only(task) ==
    LET p == JoinHandlePoll(task) IN
    IF p.ready /\ Unwrap(p.res).ok THEN Some(Unwrap(p.res)) ELSE None

\* JoinHandleMonitor::is_finished: Ready(res) => Some(res), Pending => None
is_finished(task) ==
    LET p == JoinHandlePoll(task) IN
    IF p.ready THEN Some(Unwrap(p.res)) ELSE None

othersVars == <<call, ret, fetchVars, appVars>>

\* JoinHandleMonitor::new(handle) for a task that is running
InitMonitor ==
    /\ call = [fn |-> "is_finished"]
    /\ ret = None
    /\ FetchIdle
    /\ AppIdle
    /\ monitor = [task |-> "running", taken |-> FALSE, caller |-> "idle",
                  polls |-> <<>>]

\* the monitored task ends
TaskEnd ==
    /\ monitor.task = "running"
    /\ \E e \in TaskEnds : monitor' = [monitor EXCEPT !.task = e]
    /\ UNCHANGED othersVars

\* the owner of the monitor calls is_finished
IsFinishedCall ==
    /\ monitor.task # "none"
    /\ monitor.caller = "idle"
    /\ Len(monitor.polls) < MaxPolls
    /\ monitor' = [monitor EXCEPT !.caller = "in_call"]
    /\ UNCHANGED othersVars

\* is_finished waiting for the task to end before it returns
IsFinishedReturn_join ==
    /\ monitor.task \in TaskEnds
    /\ monitor.caller = "in_call"
    /\ ~monitor.taken
    /\ monitor' = [monitor EXCEPT
                      !.caller = "idle",
                      !.taken = TRUE,
                      !.polls = Append(@, [during |-> monitor.task,
                                           value |-> is_finished(monitor.task)])]
    /\ UNCHANGED othersVars

\* the poll inside is_finished and its return. A JoinHandle that has given
\* its result has none left: polling it again panics in the caller.
IsFinishedReturn ==
    /\ monitor.task # "none"
    /\ monitor.caller = "in_call"
    /\ IF monitor.taken
       THEN monitor' = [monitor EXCEPT !.caller = "panicked"]
       ELSE monitor' = [monitor EXCEPT
                           !.caller = "idle",
                           !.taken = JoinHandlePoll(monitor.task).ready,
                           !.polls = Append(@, [during |-> monitor.task,
                                                value |-> is_finished(monitor.task)])]
    /\ UNCHANGED othersVars

NextMonitor == TaskEnd \/ IsFinishedCall \/ IsFinishedReturn

SpecMonitor == InitMonitor /\ [][NextMonitor]_vars

\* C19: every call of is_finished made while the task was running returned
\* None; a call returned Some at most once, only after the task had ended,
\* with Ok for a task that returned and Err for one that panicked or was
\* cancelled, and the first call after the end is the one that returns it;
\* no call waits: a call that has been entered can return in every state.
C19_IsFinished ==
    monitor.task # "none" =>
        /\ \A k \in 1..Len(monitor.polls) :
              LET p == monitor.polls[k] IN
              /\ p.during = "running" => p.value = None
              /\ p.during # "running" =>
                    /\ p.value # None
                    /\ Unwrap(p.value).ok = (p.during = "returned")
                    /\ ~Unwrap(p.value).ok => Unwrap(p.value).err = p.during
                    /\ k = Len(monitor.polls)
        /\ Cardinality({k \in 1..Len(monitor.polls) :
                           monitor.polls[k].value # None}) <= 1
        /\ monitor.caller = "in_call" => ENABLED IsFinishedReturn

\* C19: calls made while the task ran returned None and a later call has
\* returned the Err of a task that panicked
C19_Witness ==
    /\ monitor.task = "panicked"
    /\ Len(monitor.polls) = 3
    /\ monitor.polls[1].value = None
    /\ monitor.polls[2].value = None
    /\ monitor.polls[3].value = Some([ok |-> FALSE, err |-> "panicked"])
    /\ monitor.caller = "idle"

-----------------------------------------------------------------------------
(* Properties of the key handlers (specification SpecUi) *)

\* C21 as stated: the event loop waits for nothing but its input read: it is
\* never inside a key handler that waits for the prompt channel, for the exit
\* of xdg-open or for the exit of the editor.
C21_LoopNeverWaits ==
    loop_pc \notin {"sending_prompt", "xdg_open", "editor"}

\* C21: with the startup fetch still in flight the loop is inside
\* handle_bug_description waiting for the editor to exit
C21_LoopWaitsForEditor ==
    /\ loop_pc = "editor"
    /\ current_screen = "BugList" /\ active_panel = "Right"
    /\ tasks[2].pc = "spawned"

\* C28: a press of 'q' is handled in every mode the loop reads input in, and
\* the step that handles it ends the loop at once: no screen or panel handler
\* runs (screen, panel, flag, list, selection and texts are as before), and
\* the tasks are left as they are, in flight or not. The loop leaves its
\* input read for its end by no other step.
C28_QuitExits ==
    [][/\ HandleKey("q") =>
             /\ loop_pc' = "exited"
             /\ UNCHANGED <<uiVars, gemini_response, tasks, net, consumed>>
       /\ loop_pc = "input" /\ loop_pc' = "exited" => HandleKey("q")]_vars

\* C28: the loop has ended from the mode (BugEditing, Right) while the
\* startup fetch was in flight
C28_Witness ==
    /\ loop_pc = "exited"
    /\ current_screen = "BugEditing" /\ active_panel = "Right"
    /\ tasks[2].kind = "get_bugs" /\ tasks[2].pc = "spawned"
    /\ spinner_enabled

\* the mode the claim gives for a key pressed in the mode (screen, panel)
C29_Expected(key, screen, panel) ==
    IF key = "Tab" THEN <<screen, OtherPanel(panel)>>
    ELSE IF key = "Esc" /\ screen = "BugEditing" THEN <<"BugList", "Left">>
    ELSE IF key = "Enter" /\ screen = "BugList" /\ panel = "Right"
         THEN <<"BugEditing", "Left">>
    ELSE <<screen, panel>>

\* C29: the mode starts at (BugList, Left) and is always one of the four
\* combinations; a key press changes it as follows and no other step changes
\* it: Tab toggles the panel and keeps the screen, Esc in BugEditing gives
\* (BugList, Left), Enter in (BugList, Right) gives (BugEditing, Left), every
\* other key press leaves it as it is.
C29_ModeTransitions ==
    /\ current_screen = "BugList" /\ active_panel = "Left"
    /\ [][/\ current_screen' \in {"BugList", "BugEditing"}
          /\ active_panel' \in {"Left", "Right"}
          /\ \A key \in UiKeys :
                HandleKey(key) =>
                   <<current_screen', active_panel'>>
                      = C29_Expected(key, current_screen, active_panel)
          /\ (\A key \in UiKeys : ~HandleKey(key)) =>
                UNCHANGED <<current_screen, active_panel>>]_vars

\* C29: the mode (BugEditing, Right), reached by Tab, Enter and Tab
C29_Witness ==
    /\ current_screen = "BugEditing" /\ active_panel = "Right"
    /\ bug_reply_text = Str("No bug replied yet.")
    /\ loop_pc = "drain"

-----------------------------------------------------------------------------
(* Properties of the result channel, of task failures and of the shared text
   buffer (specification SpecApp) *)

\* C22: a tick hands at most one message to the loop: a step consumes at most
\* one message, the head of the channel, and it is the loop's receive step,
\* after which the loop reads input before it receives again, however many
\* messages are queued; a receive on an empty channel leaves the UI state,
\* the text buffer and the channel as they are.
C22_OneReceivePerTick ==
    [][/\ Len(consumed') <= Len(consumed) + 1
       /\ consumed' # consumed =>
             /\ loop_pc = "drain" /\ loop_pc' \in {"input", "panicked"}
             /\ consumed' = Append(consumed, Head(lp_channel))
             /\ loop_pc' = "input" => lp_channel' = Tail(lp_channel)
       /\ loop_pc = "drain" /\ loop_pc' = "input" /\ lp_channel = <<>> =>
             UNCHANGED <<uiVars, gemini_response, lp_channel, consumed>>]_vars

\* C22: the loop is at its receive with two messages queued, those of the
\* startup fetch and of the fetch spawned by key 'r', and none consumed yet
C22_Witness ==
    /\ loop_pc = "drain"
    /\ Len(lp_channel) = 2
    /\ lp_channel[1].variant = "Bugs" /\ lp_channel[2].variant = "Bugs"
    /\ consumed = <<>>
    /\ bug_table_items = <<>>

\* C23: while the receiver is alive the messages form one queue: a send
\* appends its message behind those queued, the loop consumes the head, and
\* nothing else changes the sequence of messages consumed and queued, so
\* messages are consumed in the order their sends completed, none skipped.
C23_Fifo ==
    [][/\ consumed' # consumed => consumed' = Append(consumed, Head(lp_channel))
       /\ ~ReceiverDropped' =>
             \/ consumed' \o lp_channel' = consumed \o lp_channel
             \/ \E i \in 1..Len(tasks) :
                   /\ tasks[i].pc = "fetched" /\ tasks'[i].pc = "done"
                   /\ consumed' = consumed
                   /\ lp_channel' = Append(lp_channel, Unwrap(tasks[i].out))]_vars

\* C23: the task spawned by key 'r' completed its send before the task
\* spawned at startup: its message was consumed first and the message of the
\* startup task is queued behind it
C23_Witness ==
    /\ Len(tasks) = 3 /\ tasks[3].kind = "get_bugs"
    /\ Len(consumed) = 1 /\ consumed[1].from = 3
    /\ Len(lp_channel) = 1 /\ lp_channel[1].from = 2
    /\ ~ReceiverDropped

\* C25: a fetch task never unwinds: when its request returns, the task goes
\* on with a message in hand, an Error message carrying the HttpRequest,
\* Deserialization or InvalidProject error when the request failed; the step
\* that ends the send of an Error message queues it in the channel, unless
\* the receiver is dropped, in which case the message is dropped and the
\* failure logged.
C25_ErrorsBecomeMessages ==
    [][\A i \in 1..Len(tasks) :
          tasks[i].kind \in FetchKinds =>
             /\ tasks'[i].pc # "panicked"
             /\ tasks[i].pc = "spawned" /\ tasks'[i].pc # "spawned" =>
                   /\ tasks'[i].pc = "fetched"
                   /\ tasks'[i].out # None
                   /\ Unwrap(tasks'[i].out).variant = "Error" =>
                         /\ ~Unwrap(tasks'[i].out).e.ok
                         /\ Unwrap(tasks'[i].out).e.err \in
                               {"HttpRequest", "Deserialization", "InvalidProject"}
             /\ (tasks[i].pc = "fetched" /\ tasks'[i].pc # "fetched"
                 /\ Unwrap(tasks[i].out).variant = "Error") =>
                   /\ tasks'[i].pc = "done"
                   /\ IF ReceiverDropped
                      THEN /\ lp_channel' = lp_channel
                           /\ tasks'[i].logged = tasks[i].logged + 1
                      ELSE lp_channel' = Append(lp_channel, Unwrap(tasks[i].out))]_vars

\* C25: a get_bug task whose request ended in a Deserialization error has
\* completed and its Error message is queued for the loop
C25_Witness ==
    \E i \in 1..Len(tasks) :
        /\ tasks[i].kind = "get_bug" /\ tasks[i].pc = "done"
        /\ Unwrap(tasks[i].out) = MsgError(DeserializationErr, i)
        /\ lp_channel = <<MsgError(DeserializationErr, i)>>
        /\ ~ReceiverDropped

\* C26 as stated: after the loop consumed a Bug message, or the Error message
\* of a get_bug task, it goes on to its input read.
C26_LoopContinues ==
    [][(/\ consumed' # consumed
        /\ \/ Head(lp_channel).variant = "Bug"
           \/ /\ Head(lp_channel).variant = "Error"
              /\ tasks[Head(lp_channel).from].kind = "get_bug")
       => loop_pc' = "input"]_vars

\* C26: run has unwound on the Bug message of a get_bug task that succeeded
C26_LoopStopped ==
    /\ loop_pc = "panicked"
    /\ consumed # <<>>
    /\ consumed[Len(consumed)].variant = "Bug"
    /\ tasks[consumed[Len(consumed)].from].kind = "get_bug"

\* C27: at most one guard of the text buffer is alive; a step of a spawned
\* task leaves the loop position and every App field but the buffer as they
\* are, and changes the buffer only as the step of the guard's holder that
\* ends with the guard dropped; the loop changes the buffer, and copies it
\* for an AI task, only in a step that starts with the lock free, taking the
\* lock for the access.
C27_OnlyBufferShared ==
    [][/\ Cardinality(LockHolders') <= 1
       /\ \A i \in 1..Len(tasks) :
             tasks'[i] # tasks[i] =>
                /\ UNCHANGED <<loop_pc, uiVars>>
                /\ gemini_response' # gemini_response =>
                      i \in LockHolders /\ tasks'[i].pc = "done"
       /\ ((\A i \in 1..Len(tasks) : tasks'[i] = tasks[i])
           /\ gemini_response' # gemini_response) => LockFree
       /\ (Len(tasks') > Len(tasks) /\ tasks'[Len(tasks')].kind = "ai") =>
             LockFree /\ tasks'[Len(tasks')].arg = gemini_response]_vars

\* C27: the AI task spawned by key 'a' holds the guard and has its text
\* stored next, the AI task of the startup waits for the lock, and the list
\* was set by the loop from the message of the fetch task
C27_Witness ==
    /\ Len(tasks) = 3
    /\ tasks[3].kind = "ai" /\ tasks[3].pc = "locked"
    /\ tasks[1].kind = "ai_static" /\ tasks[1].pc = "fetched"
    /\ tasks[2].pc = "done" /\ consumed # <<>>
    /\ bug_table_items = consumed[1].bugs
    /\ gemini_response = Str("Loading response from Gemini...")

-----------------------------------------------------------------------------
(* The result channel under load (specification SpecChannel) *)

\* the list every request of the load returns
ChannelLoad == Ok(<<Entry(1, TsDate(10, 0)), Entry(3, TsDate(12, 0))>>)

\* run after key 'r' was pressed LpChannelCapacity times in the bug table
\* before any task made a step: one get_bugs task more than the channel holds
InitChannel ==
    /\ call = [fn |-> "run"]
    /\ ret = None
    /\ FetchIdle
    /\ MonitorIdle
    /\ loop_pc = "drain"
    /\ active_panel = "Left"
    /\ current_screen = "BugList"
    /\ spinner_enabled = TRUE
    /\ bug_table_items = <<>>
    /\ bug_table_selected = None
    /\ bug_table_rows = <<>>
    /\ bug_table_scrollbar_state = ScrollbarState_new(0)
    /\ current_bug = None
    /\ gemini_response = Str("Loading response from Gemini...")
    /\ bug_reply_text = Str("")
    /\ lp_channel = <<>>
    /\ tasks = <<Task("ai_static", <<>>)>>
               \o [k \in 1..(LpChannelCapacity + 1) |-> Task("get_bugs", PROJECT)]
    /\ net = {}
    /\ consumed = <<>>

\* the loop without key presses and the fetch tasks, every request answered
\* with the same list
NextChannel ==
    \/ Drain
    \/ NoKey
    \/ \E i \in 1..Len(tasks) :
          TaskFetch(i) /\ tasks'[i].out = Some(FetchMessage("get_bugs", ChannelLoad, i))
    \/ \E i \in 1..Len(tasks) : TaskSend(i)

SpecChannel == InitChannel /\ [][NextChannel]_vars

\* C24: the channel never holds more than LpChannelCapacity messages; while
\* it is full no task completes a send (a task that has its message in hand
\* stays in send until the loop has received); and with the receiver alive
\* every task that completed its send has exactly one message queued or
\* consumed, every other task none, so that no message is lost or duplicated.
C24_CapacityAndExactlyOnce ==
    [][/\ Len(lp_channel') <= LpChannelCapacity
       /\ Len(lp_channel) = LpChannelCapacity =>
             \A i \in 1..Len(tasks) :
                tasks[i].pc = "fetched" => tasks'[i].pc = "fetched"
       /\ ~ReceiverDropped' =>
             \A i \in 1..Len(tasks') :
                tasks'[i].kind \in FetchKinds =>
                   Len(SelectSeq(consumed' \o lp_channel', LAMBDA msg : msg.from = i))
                      = IF tasks'[i].pc = "done" THEN 1 ELSE 0]_vars

\* C24: the channel is full and a sixth task, its message in hand, waits in
\* send while the loop is about to receive
C24_Witness ==
    /\ Len(lp_channel) = LpChannelCapacity
    /\ \E i \in 1..Len(tasks) : tasks[i].kind = "get_bugs" /\ tasks[i].pc = "fetched"
    /\ loop_pc = "drain"
    /\ consumed = <<>>

-----------------------------------------------------------------------------
(* Classification of parse failures by check_project (specification
   SpecCheckProject) *)

\* C30: check_project returns the Deserialization error exactly when the
\* parse of the payload fails with a category other than syntax (here: at the
\* end of the input); a parse that fails with the syntax category yields
\* InvalidProject with the requested name; and the two errors are distinct
\* values.
C30_DeserializationIffNotSyntax ==
    ret # None =>
       LET parsed == FromStrValue(call.response) IN
       /\ Unwrap(ret).err = "Deserialization"
             <=> (~parsed.ok /\ parsed.cat # "Syntax")
       /\ (~parsed.ok /\ parsed.cat = "Syntax")
             => Unwrap(ret) = InvalidProjectErr(call.name)
       /\ DeserializationErr # InvalidProjectErr(call.name)

\* C30: an object cut off after its first member's colon yields
\* Deserialization
C30_Witness ==
    /\ ret # None
    /\ call.response = <<LBRACE, StrTok(Str("self_link")), COLON>>
    /\ FromStrValue(call.response).cat = "Eof"
    /\ Unwrap(ret) = DeserializationErr

-----------------------------------------------------------------------------
(* Decode failures of pages (specification Spec) *)

\* C31: a page request, the first or a follow-up one, whose body does not
\* decode as a page is the last request of the run: the run has returned the
\* Deserialization error, not InvalidProject, with none of the entries copied
\* from the pages before it.
C31_PageDecodeFailureAborts ==
    \A i \in 2..Len(requests) :
       (served[requests[i]].ok /\ ~FromStrPage(served[requests[i]].body).ok) =>
          /\ i = Len(requests)
          /\ pc = "done"
          /\ Unwrap(result) = DeserializationErr
          /\ Unwrap(result).val = <<>>
          /\ bugtasks = <<>>

\* C31: the second page does not decode after the first page brought two
\* entries and a cursor
C31_Witness ==
    /\ Len(requests) = 3
    /\ Len(served[requests[2]].body.entries) = 2
    /\ served[requests[3]] = HttpOk(NotAPage)
    /\ pc = "done"
    /\ Unwrap(result).err = "Deserialization"

-----------------------------------------------------------------------------
(* The application left alone by the user, under fair scheduling
   (specification SpecLive) *)

\* run with no key pressed: the loop ticks and the two tasks run spawns at
\* startup make their steps
NextLive ==
    \/ Drain
    \/ NoKey
    \/ \E i \in 1..Len(tasks) : TaskFetch(i)
    \/ \E i \in 1..Len(tasks) : TaskSend(i)
    \/ \E i \in 1..Len(tasks) : TaskAiRequest(i)
    \/ \E i \in 1..Len(tasks) : TaskAiLock(i)
    \/ \E i \in 1..Len(tasks) : TaskAiWrite(i)

\* the runtime polls every spawned task that can make a step, every request
\* returns, and the loop goes on from each of its positions while it runs
FairScheduling ==
    /\ WF_vars(Drain)
    /\ WF_vars(NoKey)
    /\ \A i \in 1..2 :
          /\ WF_vars(TaskFetch(i))
          /\ WF_vars(TaskSend(i))
          /\ WF_vars(TaskAiRequest(i))
          /\ WF_vars(TaskAiLock(i))
          /\ WF_vars(TaskAiWrite(i))

SpecLive == InitApp /\ [][NextLive]_vars /\ FairScheduling

\* C32 as stated: under fair scheduling the message of the fetch task spawned
\* at startup is eventually consumed and the in-flight flag is eventually
\* false, whether the fetch succeeds or fails.
C32_FlagEventuallyCleared ==
    (tasks[2].pc = "spawned" /\ spinner_enabled)
       ~> (consumed # <<>> /\ consumed[1].from = 2 /\ ~spinner_enabled)

\* C32: the fetch failed, its Error message was consumed, run has unwound on
\* it and the flag is still set
C32_FlagStuck ==
    /\ loop_pc = "panicked"
    /\ consumed # <<>> /\ consumed[1].from = 2
    /\ consumed[1].variant = "Error"
    /\ spinner_enabled
    /\ tasks[2].pc = "done"

-----------------------------------------------------------------------------
(* check_monitor polled by the event loop (specification SpecCheckMonitor) *)

\* check_monitor reporting only a task that stopped without panicking
check_monitor_ok_only(task) ==
    is_finished(task) # None /\ Unwrap(is_finished(task)).ok

\* check_monitor: true when is_finished gives Some(result), Ok or Err, which
\* is logged; false when it gives None
check_monitor(task) == is_finished(task) # None

\* what the loop does with the value of check_monitor: true ends the loop,
\* false lets it go on to the next tick
LoopAfterCheck(finished) == IF finished THEN "stopped" ELSE "idle"

\* the loop owns a monitor of the long-lived task, which is running
InitCheckMonitor ==
    /\ call = [fn |-> "check_monitor"]
    /\ ret = None
    /\ FetchIdle
    /\ AppIdle
    /\ monitor = [task |-> "running", taken |-> FALSE, caller |-> "idle",
                  polls |-> <<>>]

\* a tick of the loop reaches its call of check_monitor
CheckMonitorCall ==
    /\ call.fn = "check_monitor"
    /\ monitor.caller = "idle"
    /\ Len(monitor.polls) < MaxPolls
    /\ monitor' = [monitor EXCEPT !.caller = "in_call"]
    /\ UNCHANGED othersVars

\* check_monitor polls once and returns. A JoinHandle that has given its
\* result has none left: polling it again panics in the caller.
CheckMonitorReturn ==
    /\ call.fn = "check_monitor"
    /\ monitor.caller = "in_call"
    /\ IF monitor.taken
       THEN monitor' = [monitor EXCEPT !.caller = "panicked"]
       ELSE monitor' = [monitor EXCEPT
                           !.caller = LoopAfterCheck(check_monitor(monitor.task)),
                           !.taken = JoinHandlePoll(monitor.task).ready,
                           !.polls = Append(@, [during |-> monitor.task,
                                                value |-> check_monitor(monitor.task)])]
    /\ UNCHANGED othersVars

NextCheckMonitor == TaskEnd \/ CheckMonitorCall \/ CheckMonitorReturn

SpecCheckMonitor == InitCheckMonitor /\ [][NextCheckMonitor]_vars

-----------------------------------------------------------------------------
(* Pure-function harness: the list a get_bugs task sends (specification
   SpecSort) *)

\* longest list fetched
MaxListLen == 3

\* entries of three bugs, each created at 10, at 12 or without date_created
SortEntries ==
    {Entry(id, created) : id \in 1..3,
                          created \in {TsDate(10, 0), TsDate(12, 0), TsEmpty}}

InitSort ==
    /\ \E fetched \in SeqsUpTo(SortEntries, MaxListLen) :
          call = [fn |-> "get_bugs_task", fetched |-> fetched]
    /\ ret = None
    /\ FetchIdle
    /\ AppIdle
    /\ MonitorIdle

\* the task builds its message from Ok(fetched)
CallFetchMessage ==
    /\ call.fn = "get_bugs_task"
    /\ ret = None
    /\ ret' = Some(FetchMessage("get_bugs", Ok(call.fetched), 0))
    /\ UNCHANGED <<call, fetchVars, appVars, monitor>>

SpecSort == InitSort /\ [][CallFetchMessage]_vars

\* a is a later creation date than b; no date is later than none
C34_Newer(a, b) == a # None /\ (b = None \/ Unwrap(a) > Unwrap(b))

\* C34: the list in the Bugs message holds the fetched entries, each once, in
\* descending order of date_created with the entries without date_created
\* last, and two entries with equal date_created are in the order in which
\* they were fetched.
C34_SentListSortedDesc ==
    (call.fn = "get_bugs_task" /\ ret # None) =>
       LET fetched == call.fetched
           sent == Unwrap(ret).bugs
           n == Len(fetched)
           created(e) == e.ts["date_created"]
       IN /\ Unwrap(ret).variant = "Bugs"
          /\ Len(sent) = n
          /\ \E p \in Permutations(1..n) :
                /\ \A k \in 1..n : sent[k] = fetched[p[k]]
                /\ \A k, l \in 1..n :
                      k < l =>
                         \/ C34_Newer(created(fetched[p[k]]), created(fetched[p[l]]))
                         \/ /\ created(fetched[p[k]]) = created(fetched[p[l]])
                            /\ p[k] < p[l]

\* C34: fetched as bug 1 without date, bug 2 created at 10, bug 3 created at
\* 12; sent as bug 3, bug 2, bug 1
C34_Witness ==
    /\ call.fn = "get_bugs_task"
    /\ ret # None
    /\ call.fetched = <<Entry(1, TsEmpty), Entry(2, TsDate(10, 0)),
                        Entry(3, TsDate(12, 0))>>
    /\ Unwrap(ret).bugs = <<Entry(3, TsDate(12, 0)), Entry(2, TsDate(10, 0)),
                            Entry(1, TsEmpty)>>

-----------------------------------------------------------------------------
(* App::update_bugs (specification SpecUpdateBugs) *)

\* DateTime<Utc>::date_naive: the day of an instant counted in hours
date_naive(t) == t \div 24

\* the Row update_bugs builds of an entry: the date cell; the id and title
\* cells are cut out of the title, which the entries here do not carry
Row(item) == [date_created |-> date_naive(Unwrap(item.ts["date_created"]))]

\* the rows of a list all of whose entries have a date_created
Rows(bugs) == [k \in 1..Len(bugs) |-> Row(bugs[k])]

\* item.date_created.unwrap() panics
UnwrapPanics(bugs) == \E k \in 1..Len(bugs) : bugs[k].ts["date_created"] = None

\* the lists a Bugs message may carry: fetched lists as the task sorted them
BugsPayloads ==
    {SortByDateCreatedDesc(fetched) : fetched \in SeqsUpTo(SortEntries, MaxListLen)}

\* the loop took a Bugs message off the channel and is about to call
\* update_bugs, either for the first time or with a list of one bug shown
InitUpdateBugs ==
    /\ \E bugs \in BugsPayloads : call = [fn |-> "update_bugs", bugs |-> bugs]
    /\ ret = None
    /\ FetchIdle
    /\ MonitorIdle
    /\ loop_pc = "drain"
    /\ active_panel \in {"Left", "Right"}
    /\ current_screen = "BugList"
    /\ spinner_enabled = TRUE
    /\ \E shown \in {<<>>, <<Entry(1, TsDate(10, 0))>>} :
          /\ bug_table_items = shown
          /\ bug_table_rows = Rows(shown)
          /\ bug_table_selected = IF shown = <<>> THEN None ELSE Some(0)
          /\ bug_table_scrollbar_state = ScrollbarState_new(Len(shown))
    /\ current_bug = None
    /\ gemini_response = Str("Loading response from Gemini...")
    /\ bug_reply_text = Str("")
    /\ lp_channel = <<>>
    /\ tasks = <<>>
    /\ net = {}
    /\ consumed = <<>>

\* app.rs 181-213: the list is stored, then a row is built of every entry,
\* which panics at the first entry without date_created; with all rows built
\* the selection, the scrollbar and the flag are set
update_bugs(bugs) ==
    /\ bug_table_items' = bugs
    /\ IF UnwrapPanics(bugs)
       THEN /\ loop_pc' = "panicked"
            /\ UNCHANGED <<bug_table_rows, bug_table_selected,
                           bug_table_scrollbar_state, spinner_enabled>>
       ELSE /\ bug_table_rows' = Rows(bugs)
            /\ bug_table_selected' = Some(0)
            /\ bug_table_scrollbar_state' = ScrollbarState_new(Len(bugs))
            /\ spinner_enabled' = FALSE
            /\ loop_pc' = "input"

\* the call of update_bugs with the payload of the message
CallUpdateBugs ==
    /\ call.fn = "update_bugs"
    /\ loop_pc = "drain"
    /\ update_bugs(call.bugs)
    /\ UNCHANGED <<notAppVars, active_panel, current_screen, current_bug,
                   gemini_response, bug_reply_text, lp_channel, tasks, net,
                   consumed>>

SpecUpdateBugs == InitUpdateBugs /\ [][CallUpdateBugs]_vars

\* C38: update_bugs returns for every list of decoded entries, those with an
\* entry without date_created included: the loop calling it does not panic.
C38_UpdateBugsCompletes ==
    call.fn = "update_bugs" => loop_pc # "panicked"

\* C38: update_bugs was called with a list of one entry, decoded from a
\* record whose date_created is the empty string, and panicked
C38_Panicked ==
    /\ call.fn = "update_bugs"
    /\ call.bugs = <<Entry(2, TsEmpty)>>
    /\ loop_pc = "panicked"
    /\ bug_table_rows = <<>>


\* C35: when the loop consumes a Bugs message the list becomes the payload,
\* the rows become one row per entry of the payload, the selection becomes 0,
\* the scrollbar gets the length of the payload and the flag is cleared,
\* while the current bug, the text buffer, the screen and the panel keep
\* their values.
C35_ConsumeBugsEffect ==
    [][(Len(consumed') > Len(consumed) /\ Head(lp_channel).variant = "Bugs") =>
          LET bugs == Head(lp_channel).bugs IN
          /\ bug_table_items' = bugs
          /\ Len(bug_table_rows') = Len(bugs)
          /\ bug_table_selected' = Some(0)
          /\ bug_table_scrollbar_state'.content_length = Len(bugs)
          /\ ~spinner_enabled'
          /\ UNCHANGED <<current_bug, gemini_response, current_screen,
                         active_panel>>]_vars

\* C35: the loop consumed a Bugs message of two entries, which are the list
\* now, and there is no row
C35_NoRows ==
    /\ Len(consumed) = 1
    /\ consumed[1].variant = "Bugs"
    /\ bug_table_items = consumed[1].bugs
    /\ Len(bug_table_items) = 2
    /\ bug_table_rows = <<>>

-----------------------------------------------------------------------------
(* Navigation in the bug table (specification SpecTable) *)

\* longest list shown
MaxRows == 12

\* rows a page key moves by
PageRows == 10

\* usize::MAX with usize cut to the 31 bits an integer of the checker has
UsizeMax == 2147483647

\* usize::wrapping_sub, usize::wrapping_add
wrapping_sub(a, b) == IF a >= b THEN a - b ELSE UsizeMax - (b - a) + 1
wrapping_add(a, b) == IF a <= UsizeMax - b THEN a + b ELSE a - (UsizeMax - b) - 1

\* a - b and a + b on usize: None for the panic "attempt to subtract (add)
\* with overflow" of a build with overflow checks, the wrapped value without
Sub(a, b) ==
    IF a < b /\ call.overflow_checks THEN None ELSE Some(wrapping_sub(a, b))
Add(a, b) ==
    IF a > UsizeMax - b /\ call.overflow_checks THEN None
    ELSE Some(wrapping_add(a, b))

\* usize::saturating_sub, Ord::min
saturating_sub(a, b) == IF a >= b THEN a - b ELSE 0
min(a, b) == IF a <= b THEN a ELSE b

\* the tail of the navigation functions: i is None when computing it
\* panicked; otherwise it is selected and the scrollbar is moved to it
SelectRow(i) ==
    IF i = None
    THEN /\ loop_pc' = "panicked"
         /\ UNCHANGED <<bug_table_selected, bug_table_scrollbar_state>>
    ELSE /\ loop_pc' = "drain"
         /\ bug_table_selected' = i
         /\ bug_table_scrollbar_state' =
               [bug_table_scrollbar_state EXCEPT !.position = Unwrap(i)]

\* bug_table_next_item going past the last row
bug_table_next_item_no_wrap ==
    SelectRow(IF bug_table_selected = None THEN Some(0)
              ELSE Add(Unwrap(bug_table_selected), 1))

\* app.rs 86-99
bug_table_previous_item ==
    SelectRow(IF bug_table_selected = None THEN Some(0)
              ELSE IF Unwrap(bug_table_selected) = 0
                   THEN Sub(Len(bug_table_items), 1)
                   ELSE Some(Unwrap(bug_table_selected) - 1))

\* app.rs 102-115
bug_table_next_item ==
    SelectRow(IF bug_table_selected = None THEN Some(0)
              ELSE LET last == Sub(Len(bug_table_items), 1) IN
                   IF last = None THEN None
                   ELSE IF Unwrap(bug_table_selected) >= Unwrap(last) THEN Some(0)
                   ELSE Some(Unwrap(bug_table_selected) + 1))

\* app.rs 117-124
bug_table_page_up_item ==
    SelectRow(IF bug_table_selected = None THEN Some(0)
              ELSE Some(saturating_sub(Unwrap(bug_table_selected), PageRows)))

\* app.rs 126-133: i + 10 is computed before len() - 1
bug_table_page_down_item ==
    SelectRow(IF bug_table_selected = None THEN Some(0)
              ELSE LET ahead == Add(Unwrap(bug_table_selected), PageRows)
                       last == Sub(Len(bug_table_items), 1)
                   IN IF ahead = None \/ last = None THEN None
                      ELSE Some(min(Unwrap(ahead), Unwrap(last))))

\* app.rs 135-138
bug_table_go_to_start == SelectRow(Some(0))

\* app.rs 140-144
bug_table_go_to_end == SelectRow(Sub(Len(bug_table_items), 1))

\* the indices followed: those within MaxRows of 0 or of usize::MAX (without
\* overflow checks the keys count on without end on an empty list)
Tracked(i) == i <= MaxRows \/ i >= UsizeMax - MaxRows

TableKeys == {"Up", "Down", "PageUp", "PageDown", "Home", "End"}

\* handle_key_events for a navigation key on the bug list with the table
\* active: no global key, no screen key, handle_bug_table
TableKey(key) ==
    /\ loop_pc = "input"
    /\ current_screen = "BugList"
    /\ active_panel = "Left"
    /\ CASE key = "Up" -> bug_table_previous_item
         [] key = "Down" -> bug_table_next_item
         [] key = "PageUp" -> bug_table_page_up_item
         [] key = "PageDown" -> bug_table_page_down_item
         [] key = "Home" -> bug_table_go_to_start
         [] key = "End" -> bug_table_go_to_end
    /\ bug_table_selected' # None => Tracked(Unwrap(bug_table_selected'))
    /\ UNCHANGED <<notAppVars, active_panel, current_screen, spinner_enabled,
                   bug_table_items, bug_table_rows, current_bug,
                   gemini_response, bug_reply_text, lp_channel, tasks, net,
                   consumed>>

\* a list of n entries
TableList(n) == [k \in 1..n |-> Entry(k, TsDate(10, 0))]

\* run with the startup get_bugs task back from its request with a list of
\* up to MaxRows entries, before the loop received for the first time; the
\* build has overflow checks or has none
InitTable ==
    /\ \E checks \in BOOLEAN : call = [fn |-> "run", overflow_checks |-> checks]
    /\ ret = None
    /\ FetchIdle
    /\ MonitorIdle
    /\ loop_pc = "drain"
    /\ active_panel = "Left"
    /\ current_screen = "BugList"
    /\ spinner_enabled = TRUE
    /\ bug_table_items = <<>>
    /\ bug_table_selected = None
    /\ bug_table_rows = <<>>
    /\ bug_table_scrollbar_state = ScrollbarState_new(0)
    /\ current_bug = None
    /\ gemini_response = Str("Loading response from Gemini...")
    /\ bug_reply_text = Str("")
    /\ lp_channel = <<>>
    /\ \E n \in 0..MaxRows :
          tasks = <<Task("ai_static", <<>>),
                    [Task("get_bugs", PROJECT) EXCEPT
                        !.pc = "fetched",
                        !.out = Some(FetchMessage("get_bugs", Ok(TableList(n)), 2))]>>
    /\ net = {[by |-> 2, call |-> "get_bugs"]}
    /\ consumed = <<>>

NextTable ==
    \/ Drain
    \/ NoKey
    \/ \E key \in TableKeys : TableKey(key)
    \/ TaskSend(2)

SpecTable == InitTable /\ [][NextTable]_vars


\* the row a navigation key selects on a list of len > 0 rows with row i
\* selected
C36_Expected(key, i, len) ==
    CASE key = "Up" -> IF i = 0 THEN len - 1 ELSE i - 1
      [] key = "Down" -> IF i = len - 1 THEN 0 ELSE i + 1
      [] key = "PageUp" -> IF i >= 10 THEN i - 10 ELSE 0
      [] key = "PageDown" -> IF i + 10 <= len - 1 THEN i + 10 ELSE len - 1
      [] key = "Home" -> 0
      [] key = "End" -> len - 1

\* C36: whenever the list is not empty a row of it is selected, and on such
\* a list every navigation key returns and selects the row the claim names:
\* Down the next row and row 0 after the last, Up the previous row and the
\* last before row 0, PageUp 10 rows back and no further than row 0,
\* PageDown 10 rows on and no further than the last row, Home row 0, End the
\* last row.
C36_NavigationInRange ==
    [][/\ bug_table_items' # <<>> =>
             /\ bug_table_selected' # None
             /\ Unwrap(bug_table_selected') \in 0..(Len(bug_table_items') - 1)
       /\ \A key \in TableKeys :
             (bug_table_items # <<>> /\ bug_table_selected # None /\ TableKey(key)) =>
                /\ loop_pc' = "drain"
                /\ bug_table_selected' =
                      Some(C36_Expected(key, Unwrap(bug_table_selected),
                                        Len(bug_table_items)))
                /\ bug_table_scrollbar_state'.position = Unwrap(bug_table_selected')]_vars

\* C36: row 11 of 12 rows is selected, which PageDown reaches from row 1 (row
\* 10 would be 10 rows on from row 0) and Up from row 0
C36_Witness ==
    /\ Len(bug_table_items) = 12
    /\ bug_table_selected = Some(11)
    /\ bug_table_scrollbar_state = [content_length |-> 12, position |-> 11]
    /\ loop_pc = "drain"

\* C37: on every list, the empty one included, Up, Down, PageDown and End
\* return, and the index they select is that of a row of the list, or 0 on
\* the empty list (the index selected when an empty list is consumed).
C37_NavigationSafe ==
    [][\A key \in {"Up", "Down", "PageDown", "End"} :
          TableKey(key) =>
             /\ loop_pc' # "panicked"
             /\ bug_table_selected' # None
             /\ \/ Unwrap(bug_table_selected') < Len(bug_table_items)
                \/ Unwrap(bug_table_selected') = 0]_vars

\* C37: a build with overflow checks panicked in a navigation function on
\* the empty list of App::new, before any message was consumed
C37_Underflow ==
    /\ call.fn = "run" /\ call.overflow_checks
    /\ bug_table_items = <<>>
    /\ consumed = <<>>
    /\ loop_pc = "panicked"


-----------------------------------------------------------------------------
(* App::update_bug and the text buffer (specification SpecBug) *)

\* LaunchpadBug::description, a required string member: the text of bug id
description(bug) == Str("description of bug ") \o Str(ToString(bug.id))

\* app.rs 238-245: the record becomes the current bug and its description is
\* stored in gemini_response under the lock; the flag is cleared
update_bug(bug) ==
    /\ LockFree
    /\ current_bug' = Some(bug)
    /\ gemini_response' = description(bug)
    /\ spinner_enabled' = FALSE
    /\ loop_pc' = "input"

\* the receive of a loop that hands a Bugs message to update_bugs and a Bug
\* message to update_bug; an Error message is shown and clears the flag
DrainUpdate ==
    /\ loop_pc = "drain"
    /\ IF lp_channel = <<>>
       THEN /\ loop_pc' = "input"
            /\ UNCHANGED <<uiVars, gemini_response, lp_channel, consumed>>
       ELSE LET msg == Head(lp_channel) IN
            /\ consumed' = Append(consumed, msg)
            /\ lp_channel' = Tail(lp_channel)
            /\ CASE msg.variant = "Bugs" ->
                      /\ update_bugs(msg.bugs)
                      /\ UNCHANGED <<current_bug, gemini_response>>
                 [] msg.variant = "Bug" ->
                      /\ update_bug(msg.bug)
                      /\ UNCHANGED <<bug_table_items, bug_table_selected,
                                     bug_table_rows, bug_table_scrollbar_state>>
                 [] msg.variant = "Error" ->
                      /\ spinner_enabled' = FALSE
                      /\ loop_pc' = "input"
                      /\ UNCHANGED <<bug_table_items, bug_table_selected,
                                     bug_table_rows, bug_table_scrollbar_state,
                                     current_bug, gemini_response>>
            /\ UNCHANGED <<active_panel, current_screen, bug_reply_text>>
    /\ UNCHANGED <<notAppVars, tasks, net>>

\* the user opens bugs of the table and asks for nothing else
NextBug ==
    \/ DrainUpdate
    \/ NoKey
    \/ HandleKey("Enter")
    \/ \E i \in 1..Len(tasks) : TaskFetch(i)
    \/ \E i \in 1..Len(tasks) : TaskSend(i)
    \/ \E i \in 1..Len(tasks) : TaskAiRequest(i)
    \/ \E i \in 1..Len(tasks) : TaskAiLock(i)
    \/ \E i \in 1..Len(tasks) : TaskAiWrite(i)

SpecBug == InitApp /\ [][NextBug]_vars

=============================================================================
